---- MODULE Spec2Model ----
(***************************************************************************)
(* Severn Edge AI firmware: the chunked model-upload handler of main.cpp,  *)
(* the Model Store behind flash_storage.h, the SimpleNN inference engine   *)
(* of simple_nn.cpp / inference.cpp, the control loop of main.cpp with the *)
(* sliding window of inference.cpp, and the sensor packets and their CRC-8 *)
(* of sensor_reader.h.                                                     *)
(*                                                                         *)
(* Bytes are naturals 0..255.  A 32-bit unsigned value (uint32_t) is kept  *)
(* as the tuple of its four bytes in memory order (little-endian), because *)
(* that is how the handler receives it (memcpy from the payload) and       *)
(* because the values range over the whole of 0 .. 2^32-1.                 *)
(***************************************************************************)
EXTENDS Integers, Sequences, FiniteSets, TLC

\* ------------------------------------------------------------------------
\* Program constants
\* ------------------------------------------------------------------------
MAX_MODEL_SIZE == 85000
NN_INPUT_SIZE == 600
NN_HIDDEN_SIZE == 32
NN_MAX_CLASSES == 8
LABEL_COPY_MAX == 15
START_HEADER_LEN == 10
CHUNK_HEADER_LEN == 5

UPLOAD_IDLE == 0
UPLOAD_RECEIVING == 1
UPLOAD_COMPLETE == 2
UPLOAD_ERROR == 3

STATUS_READY == 0
STATUS_RECEIVING == 1
STATUS_VALIDATING == 2
STATUS_SAVING == 3
STATUS_SUCCESS == 4
STATUS_ERROR_SIZE == 10
STATUS_ERROR_CRC == 11
STATUS_ERROR_FLASH == 12
STATUS_ERROR_FORMAT == 13

CMD_START == 1
CMD_CHUNK == 2
CMD_FINISH == 3
CMD_CANCEL == 4

WINDOW_SIZE == 100
WINDOW_STRIDE == 25
MODE_COLLECT == 0
MODE_INFERENCE == 1
ACCEL_SCALE == 8192
\* GYRO_SCALE (16.4) times the 100.0 of addSample
GYRO_DIVISOR == 1640

\* SIMPLE_NN_MAGIC 0x4E4E4E53 ("SNNN") as it lies in memory
SIMPLE_NN_MAGIC == <<83, 78, 78, 78>>

\* ------------------------------------------------------------------------
\* 32-bit unsigned values as four little-endian bytes
\* ------------------------------------------------------------------------
Byte == 0..255

\* the bytes of a natural below 2^31
LE32(v) == <<v % 256, (v \div 256) % 256, (v \div 65536) % 256, (v \div 16777216) % 256>>

\* memcpy(&x, &data[i], 4): the four bytes at 0-based index i..i+3
RdLE32(data, i) == <<data[i + 1], data[i + 2], data[i + 3], data[i + 4]>>

\* the value of a uint32 whose top byte is 0 (below 2^24)
U24(u) == u[1] + 256 * u[2] + 65536 * u[3]

\* u > n for a uint32 u and a natural n < 2^24
U32GtNat(u, n) == u[4] > 0 \/ U24(u) > n

\* ------------------------------------------------------------------------
\* CRC-32 (reflected polynomial 0xEDB88320, init and final XOR 0xFFFFFFFF)
\* ------------------------------------------------------------------------
RECURSIVE XorBits(_, _, _)
XorBits(a, b, n) ==
    IF n = 0 THEN 0
    ELSE ((a + b) % 2) + 2 * XorBits(a \div 2, b \div 2, n - 1)

Xor4 == [a \in 0..15 |-> [b \in 0..15 |-> XorBits(a, b, 4)]]

Xor8(a, b) == 16 * Xor4[a \div 16][b \div 16] + Xor4[a % 16][b % 16]

XorU32(a, b) == <<Xor8(a[1], b[1]), Xor8(a[2], b[2]), Xor8(a[3], b[3]), Xor8(a[4], b[4])>>

ShiftR1(c) ==
    << (c[1] \div 2) + 128 * (c[2] % 2),
       (c[2] \div 2) + 128 * (c[3] % 2),
       (c[3] \div 2) + 128 * (c[4] % 2),
       c[4] \div 2 >>

ShiftR8(c) == <<c[2], c[3], c[4], 0>>

CRC32_POLY == <<32, 131, 184, 237>>

ALL_ONES == <<255, 255, 255, 255>>

\* one step of the bit loop: shift right, XOR the polynomial in when a 1 fell out
CrcBitStep(c) == IF c[1] % 2 = 1 THEN XorU32(ShiftR1(c), CRC32_POLY) ELSE ShiftR1(c)

RECURSIVE CrcBitLoop(_, _)
CrcBitLoop(c, k) ==
    CHOOSE r \in {IF k = 0 THEN v ELSE CrcBitLoop(CrcBitStep(v), k - 1) : v \in {c}} : TRUE

Crc32Table == [i \in Byte |-> CrcBitLoop(<<i, 0, 0, 0>>, 8)]

\* one step of the byte loop
CrcByteStep(c, b) == XorU32(ShiftR8(c), Crc32Table[Xor8(c[1], b)])

\* the byte loop from byte i on (each accumulator is a value before it is used)
RECURSIVE CrcFold(_, _, _)
CrcFold(c, bytes, i) ==
    CHOOSE r \in {IF i > Len(bytes) THEN v ELSE CrcFold(CrcByteStep(v, bytes[i]), bytes, i + 1) :
                     v \in {c}} : TRUE

calculateCrc32(bytes) == XorU32(CrcFold(ALL_ONES, bytes, 1), ALL_ONES)

\* ------------------------------------------------------------------------
\* Bounds of the model
\* ------------------------------------------------------------------------
\* number of weight bytes that follow the 16-byte header in a model image
WeightLen == 1
\* largest class count the central declares in a Start
MaxLabels == 2
\* a Finish is sent only for a session that declared at most this many bytes
\* (finalizeModelUpload runs the CRC over every declared byte)
MaxFinishSize == 64

Max(a, b) == IF a >= b THEN a ELSE b
Min(a, b) == IF a <= b THEN a ELSE b

\* ------------------------------------------------------------------------
\* State
\* ------------------------------------------------------------------------
VARIABLES
    upload,              \* Model Store: the upload session
    stored,              \* Model Store: the active (committed) model
    nn,                  \* SimpleNN neuralNetwork: modelLoaded, numClasses, pointers
    uploadExpectedSize,  \* main.cpp static (uint32)
    uploadExpectedCrc,   \* main.cpp static (uint32)
    uploadNumClasses,    \* main.cpp static (uint8)
    statusLog,           \* status records the last handler call wrote, in order
    cmd,                 \* command byte of the last value handled (-1: none)
    maxRead,             \* highest payload index the last handler call read
    nnArg,               \* argument of the last loadModel call
    nnRet,               \* result of the last loadModel call
    connected,           \* main.cpp loop: a central is connected
    currentMode,         \* main.cpp global (uint8)
    totalSamples,        \* main.cpp global
    inferenceCount,      \* main.cpp global
    sequence,            \* SensorReader::_sequence
    sensorReads,         \* calls of sensor->read() made so far
    sampleIndex,         \* inference.cpp static
    sampleBuffer,        \* inference.cpp static: WINDOW_SIZE rows of 6 normalised values
    sensorOut,           \* value of the sensor characteristic
    inferenceOut,        \* value of the inference characteristic
    lastConfidence,      \* SimpleNN::lastConfidence
    predictCall,         \* the last call of SimpleNN::predict: its input, the
                         \* probabilities it wrote and the value it returned
    labelCall            \* the last call of getPredictionLabel: its argument and
                         \* the string it returned

\* the control loop's sampling and inference state
loopVars == <<connected, currentMode, totalSamples, inferenceCount, sequence, sensorReads,
              sampleIndex, sampleBuffer, sensorOut, inferenceOut, lastConfidence,
              predictCall, labelCall>>

vars == <<upload, stored, nn, uploadExpectedSize, uploadExpectedCrc, uploadNumClasses,
          statusLog, cmd, maxRead, nnArg, nnRet, loopVars>>

\* ------------------------------------------------------------------------
\* SimpleNN model structure and the engine (simple_nn.h, simple_nn.cpp)
\* ------------------------------------------------------------------------
NULL_PTR == 0
\* the address getStoredSimpleNNModel() returns: the store's active model
STORE_ADDR == 1

HEADER_LEN == 16

\* byte i (0-based) of a model image lying in the MAX_MODEL_SIZE buffer;
\* the buffer past the image holds zeroes
ImgAt(bytes, i) == IF i + 1 \in DOMAIN bytes THEN bytes[i + 1] ELSE 0

ImgLE32(bytes, i) == <<ImgAt(bytes, i), ImgAt(bytes, i + 1), ImgAt(bytes, i + 2), ImgAt(bytes, i + 3)>>

\* the SimpleNNModel fields as they lie at the start of a model image
StructOf(bytes) ==
    [ magic      |-> ImgLE32(bytes, 0),
      numClasses |-> ImgLE32(bytes, 4),
      inputSize  |-> ImgLE32(bytes, 8),
      hiddenSize |-> ImgLE32(bytes, 12),
      weights    |-> [i \in 1..Max(0, Len(bytes) - HEADER_LEN) |-> bytes[HEADER_LEN + i]] ]

\* model structures a caller of SimpleNN::loadModel may pass, by address
CandMagic == <<SIMPLE_NN_MAGIC, <<84, 78, 78, 78>>, <<83, 78, 78, 0>>>>
CandClasses == <<LE32(0), LE32(1), LE32(2), LE32(8), LE32(9), <<1, 1, 0, 0>>, ALL_ONES>>
CandInput == <<LE32(600), LE32(599), LE32(601), <<88, 2, 1, 0>>>>
CandHidden == <<LE32(32), LE32(31), LE32(33), <<32, 0, 0, 1>>>>

NumCandidates == Len(CandMagic) * Len(CandClasses) * Len(CandInput) * Len(CandHidden)

CandidateAddrs == 2..(NumCandidates + 1)

CandidateAt(addr) ==
    LET k == addr - 2
        a == k % Len(CandMagic)
        b == (k \div Len(CandMagic)) % Len(CandClasses)
        c == (k \div (Len(CandMagic) * Len(CandClasses))) % Len(CandInput)
        d == k \div (Len(CandMagic) * Len(CandClasses) * Len(CandInput))
    IN  [ magic      |-> CandMagic[a + 1],
          numClasses |-> CandClasses[b + 1],
          inputSize  |-> CandInput[c + 1],
          hiddenSize |-> CandHidden[d + 1],
          weights    |-> <<addr % 256>> ]

\* entry k of a float array given by its non-zero entries
ArrayAt(f, k) == IF k \in DOMAIN f THEN f[k] ELSE 0

NoWeights == [k \in {} |-> 0]

\* The float arrays of a model are stood for by its first weight byte: the
\* hiddenWeights, hiddenBias, outputWeights and outputBias it selects, each
\* given by its non-zero entries.
WeightProfiles ==
    << \* all weights and biases zero
       [hiddenWeights |-> NoWeights, hiddenBias |-> NoWeights,
        outputWeights |-> NoWeights, outputBias |-> NoWeights],
       \* scores fixed by the output biases: 0, 2, 2, 1, 0, 2, 0, 0
       [hiddenWeights |-> NoWeights, hiddenBias |-> NoWeights,
        outputWeights |-> NoWeights,
        outputBias |-> (1 :> 2) @@ (2 :> 2) @@ (3 :> 1) @@ (5 :> 2)],
       \* scores that depend on the input through the hidden neurons 0, 1, 31
       [hiddenWeights |-> (0 :> 1) @@ (NN_INPUT_SIZE - 1 :> -1)
                          @@ (31 * NN_INPUT_SIZE + 6 :> 2),
        hiddenBias |-> (1 :> 1) @@ (31 :> -1),
        outputWeights |-> (0 :> 1) @@ (NN_HIDDEN_SIZE + 31 :> 1)
                          @@ (2 * NN_HIDDEN_SIZE + 1 :> 1)
                          @@ (3 * NN_HIDDEN_SIZE :> 1) @@ (3 * NN_HIDDEN_SIZE + 31 :> -1),
        outputBias |-> (4 :> 1)],
       \* scores -9, -9, 0, 0, ...: probabilities that underflow to 0
       [hiddenWeights |-> NoWeights, hiddenBias |-> NoWeights,
        outputWeights |-> NoWeights,
        outputBias |-> (0 :> -9) @@ (1 :> -9)] >>

NumProfiles == Len(WeightProfiles)

WeightByte(m) == IF Len(m.weights) >= 1 THEN m.weights[1] ELSE 0

\* the float arrays SimpleNN::loadModel points the engine at
WeightsOf(m) == WeightProfiles[(WeightByte(m) % NumProfiles) + 1]

\* models with a valid header a caller of SimpleNN::predict may have loaded,
\* by address: every number of classes with every set of weights
PredictAddrs == (NumCandidates + 2)..(NumCandidates + 1 + NN_MAX_CLASSES * NumProfiles)

PredictModelAt(addr) ==
    LET k == addr - (NumCandidates + 2) IN
    [ magic      |-> SIMPLE_NN_MAGIC,
      numClasses |-> LE32(1 + (k % NN_MAX_CLASSES)),
      inputSize  |-> LE32(NN_INPUT_SIZE),
      hiddenSize |-> LE32(NN_HIDDEN_SIZE),
      weights    |-> <<k \div NN_MAX_CLASSES>>,
      labels     |-> [i \in 0..(NN_MAX_CLASSES - 1) |-> <<65 + i>>] ]

\* the structure at an address (the store's active model, or a caller's)
Deref(addr, st) ==
    IF addr = STORE_ADDR THEN StructOf(st.data)
    ELSE IF addr \in CandidateAddrs THEN CandidateAt(addr)
    ELSE PredictModelAt(addr)

\* SimpleNN::SimpleNN()
NNConstructed == [modelLoaded |-> FALSE, numClasses |-> 0, model |-> NULL_PTR]

\* no call of getPredictionLabel made yet
NoLabelCall == [classIndex |-> 0, label |-> <<>>]

\* no call of SimpleNN::predict made yet
NoPredictCall == [input |-> <<>>, probabilities |-> <<>>, prediction |-> -1]

MagicOk(m) == m.magic = SIMPLE_NN_MAGIC
InputSizeOk(m) == m.inputSize = LE32(NN_INPUT_SIZE)
\* variant: hiddenSize compared as one byte
HiddenSizeOk_LowByte(m) == m.hiddenSize[1] = NN_HIDDEN_SIZE

HiddenSizeOk(m) == m.hiddenSize = LE32(NN_HIDDEN_SIZE)
\* variant: the upper bound of numClasses off by one
NumClassesOk_Below8(m) == ~(m.numClasses = LE32(0) \/ U32GtNat(m.numClasses, NN_MAX_CLASSES - 1))

NumClassesOk(m) == ~(m.numClasses = LE32(0) \/ U32GtNat(m.numClasses, NN_MAX_CLASSES))

\* SimpleNN::loadModel(modelData): the engine afterwards and the value returned
loadModel(e, addr, m) ==
    IF ~MagicOk(m) THEN [nn |-> [e EXCEPT !.modelLoaded = FALSE], ret |-> FALSE]
    ELSE IF ~InputSizeOk(m) THEN [nn |-> [e EXCEPT !.modelLoaded = FALSE], ret |-> FALSE]
    ELSE IF ~HiddenSizeOk(m) THEN [nn |-> [e EXCEPT !.modelLoaded = FALSE], ret |-> FALSE]
    ELSE IF ~NumClassesOk(m) THEN [nn |-> [e EXCEPT !.modelLoaded = FALSE], ret |-> FALSE]
    ELSE [nn |-> [modelLoaded |-> TRUE, numClasses |-> U24(m.numClasses), model |-> addr],
          ret |-> TRUE]

\* the structure the engine's weight and label pointers point into
EngineModel == Deref(nn.model, stored)

\* ------------------------------------------------------------------------
\* Model Store (declared in flash_storage.h)
\* ------------------------------------------------------------------------
EmptyBuffer == [o \in {} |-> 0]

NoLabels == [i \in 0..(NN_MAX_CLASSES - 1) |-> <<>>]

UploadIdle ==
    [ state |-> UPLOAD_IDLE, expectedSize |-> 0, numClasses |-> 0,
      receivedBytes |-> 0, buffer |-> EmptyBuffer, labels |-> NoLabels ]

NoStoredModel == [valid |-> FALSE, data |-> <<>>, numClasses |-> 0, labels |-> NoLabels]

getUploadState(up) == up.state

hasStoredModel(st) == st.valid

getStoredModelSize(st) == Len(st.data)

getStoredSimpleNNModel(st) == IF st.valid THEN STORE_ADDR ELSE NULL_PTR

\* the placeholder "Unknown"
UNKNOWN_LABEL == <<85, 110, 107, 110, 111, 119, 110>>

\* getStoredModelLabel(classIndex)
getStoredModelLabel(st, classIndex) ==
    IF st.valid /\ classIndex >= 0 /\ classIndex < st.numClasses /\ classIndex < NN_MAX_CLASSES
    THEN st.labels[classIndex]
    ELSE UNKNOWN_LABEL

\* clearStoredModel(): the active model wiped
clearStoredModel(st) == NoStoredModel

\* byte o of the upload buffer; a byte no chunk has written is zero since the reset
BufAt(buf, o) == IF o \in DOMAIN buf THEN buf[o] ELSE 0

RECURSIVE ContiguousFrom(_, _)
ContiguousFrom(buf, n) == IF n \in DOMAIN buf THEN ContiguousFrom(buf, n + 1) ELSE n

\* variant: the counters reset, the bytes of the buffer left in place
beginModelUpload_KeepsBuffer(totalSize, numClasses) ==
    [ state |-> UPLOAD_RECEIVING, expectedSize |-> totalSize, numClasses |-> numClasses,
      receivedBytes |-> 0, buffer |-> upload.buffer, labels |-> NoLabels ]

\* beginModelUpload(totalSize, numClasses)
beginModelUpload(totalSize, numClasses) ==
    [ state |-> UPLOAD_RECEIVING, expectedSize |-> totalSize, numClasses |-> numClasses,
      receivedBytes |-> 0, buffer |-> EmptyBuffer, labels |-> NoLabels ]

\* setModelLabel(classIndex, label)
setModelLabel(up, classIndex, label) ==
    IF classIndex < NN_MAX_CLASSES THEN [up EXCEPT !.labels[classIndex] = label] ELSE up

\* offset + length <= expectedSize, for a 32-bit offset, without wrap-around
ChunkFits(offset, length, expectedSize) ==
    offset[4] = 0 /\ U24(offset) + length <= expectedSize

\* variant: receivedBytes is the highest offset written, contiguous or not
receiveModelChunk_HighWater(up, bytes, length, offset) ==
    IF up.state = UPLOAD_RECEIVING /\ ChunkFits(offset, length, up.expectedSize)
    THEN LET off == U24(offset)
             buf == [o \in DOMAIN up.buffer \cup off..(off + length - 1) |->
                        IF o >= off /\ o < off + length THEN bytes[o - off + 1]
                        ELSE up.buffer[o]]
         IN  [ok |-> TRUE,
              upload |-> [up EXCEPT !.buffer = buf,
                                    !.receivedBytes = Max(up.receivedBytes, off + length)]]
    ELSE [ok |-> FALSE, upload |-> up]

\* receiveModelChunk(data, length, offset): the session afterwards and the result
receiveModelChunk(up, bytes, length, offset) ==
    IF up.state = UPLOAD_RECEIVING /\ ChunkFits(offset, length, up.expectedSize)
    THEN LET off == U24(offset)
             buf == [o \in DOMAIN up.buffer \cup off..(off + length - 1) |->
                        IF o >= off /\ o < off + length THEN bytes[o - off + 1]
                        ELSE up.buffer[o]]
         IN  [ok |-> TRUE,
              upload |-> [up EXCEPT !.buffer = buf, !.receivedBytes = ContiguousFrom(buf, 0)]]
    ELSE [ok |-> FALSE, upload |-> up]

\* variant: the percentage rounded up
getUploadProgress_RoundsUp(up) ==
    IF up.expectedSize = 0 THEN 0
    ELSE Min(100, (up.receivedBytes * 100 + up.expectedSize - 1) \div up.expectedSize)

\* getUploadProgress()
getUploadProgress(up) ==
    IF up.expectedSize = 0 THEN 0
    ELSE Min(100, (up.receivedBytes * 100) \div up.expectedSize)

\* the first expectedSize bytes of the upload buffer
ReceivedImage(up) == [i \in 1..up.expectedSize |-> BufAt(up.buffer, i - 1)]

SessionClosed(up, state) ==
    [up EXCEPT !.state = state, !.buffer = EmptyBuffer, !.receivedBytes = 0]

\* variant: the session's state not looked at
finalizeModelUpload_AnyState(up, st, expectedCrc32) ==
    LET bytes == ReceivedImage(up) IN
    IF calculateCrc32(bytes) # expectedCrc32
    THEN [status |-> STATUS_ERROR_CRC, upload |-> SessionClosed(up, UPLOAD_ERROR),
          stored |-> st]
    ELSE [status |-> STATUS_SUCCESS, upload |-> SessionClosed(up, UPLOAD_COMPLETE),
          stored |-> [valid |-> TRUE, data |-> bytes, numClasses |-> up.numClasses,
                      labels |-> up.labels]]

\* finalizeModelUpload(expectedCrc32): status, session and active model afterwards
finalizeModelUpload(up, st, expectedCrc32) ==
    IF up.state # UPLOAD_RECEIVING
    THEN [status |-> STATUS_ERROR_FORMAT, upload |-> up, stored |-> st]
    ELSE LET bytes == ReceivedImage(up) IN
         IF calculateCrc32(bytes) # expectedCrc32
         THEN [status |-> STATUS_ERROR_CRC, upload |-> SessionClosed(up, UPLOAD_ERROR),
               stored |-> st]
         ELSE [status |-> STATUS_SUCCESS, upload |-> SessionClosed(up, UPLOAD_COMPLETE),
               stored |-> [valid |-> TRUE, data |-> bytes, numClasses |-> up.numClasses,
                           labels |-> up.labels]]

\* ------------------------------------------------------------------------
\* Upload handler (main.cpp)
\* ------------------------------------------------------------------------
\* variant: the reserved byte not written
StatusRecord_NoReserved(state, progress, status) == <<state, progress, status>>

\* updateModelStatus(state, progress, status): the record written
StatusRecord(state, progress, status) == <<state, progress, status, 0>>

\* data[i] of the characteristic value (0-based); past the value the buffer is zero
PayloadAt(data, i) == IF i + 1 \in DOMAIN data THEN data[i + 1] ELSE 0

\* variant: the START header taken to be one byte shorter
StartHeaderOk_Nine(len) == ~(len < START_HEADER_LEN - 1)

StartHeaderOk(len) == ~(len < START_HEADER_LEN)

ChunkHeaderOk(len) == ~(len < CHUNK_HEADER_LEN)

\* variant: a model of exactly MAX_MODEL_SIZE bytes refused
SizeTooBig_AtCapacity(size) == U32GtNat(size, MAX_MODEL_SIZE - 1)

SizeTooBig(size) == U32GtNat(size, MAX_MODEL_SIZE)

\* variant: the scan allowed one byte past the payload
LabelRemaining_OnePast(len, offset) == len - offset + 1

\* int remaining = len - offset
LabelRemaining(len, offset) == len - offset

\* memchr(&data[offset], '\0', remaining): index of the terminator, or -1
RECURSIVE memchr(_, _, _)
memchr(data, offset, remaining) ==
    IF remaining <= 0 THEN -1
    ELSE IF PayloadAt(data, offset) = 0 THEN offset
    ELSE memchr(data, offset + 1, remaining - 1)

\* variant: sixteen characters copied
CopyLen_Sixteen(labelLen) == IF labelLen < LABEL_COPY_MAX + 1 THEN labelLen ELSE LABEL_COPY_MAX + 1

\* int copyLen = labelLen < 15 ? labelLen : 15
CopyLen(labelLen) == IF labelLen < LABEL_COPY_MAX THEN labelLen ELSE LABEL_COPY_MAX

\* the label loop of START from class i at payload offset: whether every label
\* scanned had its terminator, the session with the labels set, the highest index
\* read, and the number of calls of setModelLabel (made for the classes 0, 1, ...)
RECURSIVE LabelLoop(_, _, _, _, _, _)
LabelLoop(data, len, i, offset, up, hi) ==
    IF ~(i < PayloadAt(data, 9) /\ offset < len)
    THEN [ok |-> TRUE, upload |-> up, maxRead |-> hi, labelsSet |-> i]
    ELSE LET remaining == LabelRemaining(len, offset) IN
         CHOOSE r \in
           { IF term = -1
             THEN [ok |-> FALSE, upload |-> up, maxRead |-> Max(hi, offset + remaining - 1),
                   labelsSet |-> i]
             ELSE LET labelLen == term - offset
                      safeLabel == [k \in 1..CopyLen(labelLen) |-> PayloadAt(data, offset + k - 1)]
                  IN  LabelLoop(data, len, i + 1, offset + labelLen + 1,
                                setModelLabel(up, i, safeLabel), Max(hi, term))
             : term \in {memchr(data, offset, remaining)} } : TRUE

\* variant: the failure branch of FINISH reports the format error whatever the result
FinishFailure_AlwaysFormat(result) == StatusRecord(UPLOAD_ERROR, 100, STATUS_ERROR_FORMAT)

\* updateModelStatus(UPLOAD_ERROR, 100, result) after a failed finalizeModelUpload
FinishFailure(result) == StatusRecord(UPLOAD_ERROR, 100, result)

\* variant: the chunk length one short
ChunkLen_OneShort(len) == len - CHUNK_HEADER_LEN - 1

\* uint16_t chunkLen = len - 5
ChunkLen(len) == len - CHUNK_HEADER_LEN

\* memcpy(&offset, &data[1], 4)
ChunkOffset(data) == RdLE32(data, 1)

\* reloadModel(): the engine afterwards and the value returned
reloadModel(e, st) ==
    LET modelData == getStoredSimpleNNModel(st) IN
    IF modelData = NULL_PTR THEN [nn |-> e, ret |-> FALSE, called |-> FALSE]
    ELSE LET r == loadModel(e, modelData, Deref(modelData, st))
         IN  [nn |-> r.nn, ret |-> r.ret, called |-> TRUE]

\* ------------------------------------------------------------------------
\* What the central sends
\* ------------------------------------------------------------------------
BAD_MAGIC == <<84, 78, 78, 78>>

ModelImage(magic, n, w) ==
    magic \o LE32(n) \o LE32(NN_INPUT_SIZE) \o LE32(NN_HIDDEN_SIZE) \o [i \in 1..WeightLen |-> w]

ImgLen == HEADER_LEN + WeightLen

ImgG1 == ModelImage(SIMPLE_NN_MAGIC, 1, 7)
ImgG2 == ModelImage(SIMPLE_NN_MAGIC, 2, 9)
ImgBM == ModelImage(BAD_MAGIC, 1, 7)

Images == {ImgG1, ImgG2, ImgBM}

CrcG1 == calculateCrc32(ImgG1)
CrcG2 == calculateCrc32(ImgG2)
CrcBM == calculateCrc32(ImgBM)

Crcs == {CrcG1, CrcG2, CrcBM}

\* label i of a label set: "A", "B", ...
LabelText(i) == <<65 + i>>

RECURSIVE LabelTail(_)
LabelTail(n) == IF n = 0 THEN <<>> ELSE LabelTail(n - 1) \o LabelText(n - 1) \o <<0>>

StartMsg(size, crc, n, tail) == <<CMD_START>> \o size \o crc \o <<n>> \o tail

ChunkMsg(offset, bytes) == <<CMD_CHUNK>> \o offset \o bytes

StartsGood == {StartMsg(LE32(ImgLen), c, n, LabelTail(n)) : c \in Crcs, n \in 1..MaxLabels}

StartsSize ==
    {StartMsg(s, CrcG1, 1, LabelTail(1)) :
        s \in {LE32(MAX_MODEL_SIZE), LE32(MAX_MODEL_SIZE + 1), ALL_ONES}}

StartsUnterminated ==
    {StartMsg(LE32(ImgLen), CrcG1, 1, <<65>>), StartMsg(LE32(ImgLen), CrcG1, 2, <<65, 0, 66>>)}

StartsShort == {<<CMD_START>>, SubSeq(StartMsg(LE32(ImgLen), CrcG1, 1, LabelTail(1)), 1, 9)}

\* Starts of the protocol runs: every declared CRC, label sets of 1..MaxLabels,
\* and one that declares more than the capacity
StartsMain == StartsGood \cup {StartMsg(LE32(MAX_MODEL_SIZE + 1), CrcG1, 1, LabelTail(1))}

\* a Start for a model of no bytes
StartsEmpty == {StartMsg(LE32(0), CrcG1, 1, LabelTail(1))}

\* Starts of the parsing runs: the size limit, labels without terminator,
\* truncated headers, and well-formed ones
StartsEdge ==
    {StartMsg(LE32(ImgLen), CrcG1, n, LabelTail(n)) : n \in 1..MaxLabels}
        \cup StartsSize \cup StartsUnterminated \cup StartsShort \cup StartsEmpty

\* a valid model of n classes, as a trainer produces it for a label set of size n
ImgOfClasses(n) == ModelImage(SIMPLE_NN_MAGIC, n, 7)

\* labels of 15 and of 17 characters, and a label after them
Label15 == [k \in 1..LABEL_COPY_MAX |-> 96 + k]
Label17 == [k \in 1..(LABEL_COPY_MAX + 2) |-> 64 + k]

StartLong ==
    StartMsg(LE32(ImgLen), calculateCrc32(ImgOfClasses(3)), 3,
             Label15 \o <<0>> \o Label17 \o <<0>> \o LabelText(2) \o <<0>>)

\* Starts of the label runs: every label set of size 1..8 with its model
StartsLabels ==
    {StartMsg(LE32(ImgLen), calculateCrc32(ImgOfClasses(n)), n, LabelTail(n)) :
        n \in 1..NN_MAX_CLASSES} \cup {StartLong}

Blocks == {<<0, HEADER_LEN>>, <<HEADER_LEN, WeightLen>>, <<0, ImgLen>>}

ChunksOfImages ==
    {ChunkMsg(LE32(b[1]), SubSeq(img, b[1] + 1, b[1] + b[2])) : img \in Images, b \in Blocks}

ChunksBeyond ==
    { ChunkMsg(LE32(ImgLen), <<7>>),
      ChunkMsg(LE32(HEADER_LEN), [i \in 1..(WeightLen + 1) |-> 7]),
      ChunkMsg(ALL_ONES, <<7>>),
      ChunkMsg(<<240, 255, 255, 255>>, ImgG1),
      ChunkMsg(LE32(ImgLen + 1), <<>>) }

ChunksOther == {ChunkMsg(LE32(ImgLen), <<>>), <<CMD_CHUNK>>, <<CMD_CHUNK, 0, 0, 0>>}

ChunksOfG1 == {ChunkMsg(LE32(b[1]), SubSeq(ImgG1, b[1] + 1, b[1] + b[2])) : b \in Blocks}

ChunksMain == ChunksOfImages \cup {ChunkMsg(LE32(HEADER_LEN), [i \in 1..(WeightLen + 1) |-> 7])}

ChunksEdge == ChunksOfG1 \cup ChunksBeyond \cup ChunksOther

ChunksLabels ==
    {ChunkMsg(LE32(b[1]), SubSeq(ImgOfClasses(n), b[1] + 1, b[1] + b[2])) :
        n \in 1..NN_MAX_CLASSES, b \in {<<0, HEADER_LEN>>, <<HEADER_LEN, WeightLen>>}}

FinishPayloads == {<<CMD_FINISH>>}

CancelPayloads == {<<CMD_CANCEL>>}

OtherPayloads == {<<>>, <<9>>}

\* ------------------------------------------------------------------------
\* Actions
\* ------------------------------------------------------------------------
\* the status records a handler call wrote to the status characteristic
Emit(log) == statusLog' = log

\* the value of the status characteristic after a call that wrote to it
LastStatus == statusLog[Len(statusLog)]

\* handleModelUpload(), case 0x01 START
HandleStart(data) ==
    LET len == Len(data) IN
    /\ len >= 1 /\ data[1] = CMD_START
    /\ cmd' = data[1]
    /\ UNCHANGED <<stored, nn, nnArg, nnRet>>
    /\ IF ~StartHeaderOk(len)
       THEN /\ Emit(<<StatusRecord(UPLOAD_ERROR, 0, STATUS_ERROR_FORMAT)>>)
            /\ maxRead' = 0
            /\ UNCHANGED <<upload, uploadExpectedSize, uploadExpectedCrc, uploadNumClasses>>
       ELSE /\ uploadExpectedSize' = RdLE32(data, 1)
            /\ uploadExpectedCrc' = RdLE32(data, 5)
            /\ uploadNumClasses' = PayloadAt(data, 9)
            /\ IF SizeTooBig(RdLE32(data, 1))
               THEN /\ Emit(<<StatusRecord(UPLOAD_ERROR, 0, STATUS_ERROR_SIZE)>>)
                    /\ maxRead' = 9
                    /\ UNCHANGED upload
               ELSE LET begun == beginModelUpload(U24(RdLE32(data, 1)), PayloadAt(data, 9))
                        r == LabelLoop(data, len, 0, START_HEADER_LEN, begun, 9)
                    IN  /\ upload' = r.upload
                        /\ maxRead' = r.maxRead
                        /\ IF r.ok
                           THEN Emit(<<StatusRecord(UPLOAD_RECEIVING, 0, STATUS_RECEIVING)>>)
                           ELSE Emit(<<StatusRecord(UPLOAD_ERROR, 0, STATUS_ERROR_FORMAT)>>)

\* handleModelUpload(), case 0x02 CHUNK
HandleChunk(data) ==
    LET len == Len(data) IN
    /\ len >= 1 /\ data[1] = CMD_CHUNK
    /\ cmd' = data[1]
    /\ UNCHANGED <<stored, nn, nnArg, nnRet, uploadExpectedSize, uploadExpectedCrc,
                   uploadNumClasses>>
    /\ IF ~ChunkHeaderOk(len)
       THEN /\ Emit(<<StatusRecord(UPLOAD_ERROR, 0, STATUS_ERROR_FORMAT)>>)
            /\ maxRead' = 0
            /\ UNCHANGED upload
       ELSE LET chunkLen == ChunkLen(len)
                bytes == [k \in 1..chunkLen |-> PayloadAt(data, CHUNK_HEADER_LEN + k - 1)]
                r == receiveModelChunk(upload, bytes, chunkLen, ChunkOffset(data))
            IN  /\ upload' = r.upload
                /\ IF r.ok
                   THEN /\ Emit(<<StatusRecord(UPLOAD_RECEIVING, getUploadProgress(r.upload),
                                               STATUS_RECEIVING)>>)
                        /\ maxRead' = Max(4, CHUNK_HEADER_LEN + chunkLen - 1)
                   ELSE /\ Emit(<<StatusRecord(UPLOAD_ERROR, getUploadProgress(r.upload),
                                               STATUS_ERROR_FORMAT)>>)
                        /\ maxRead' = 4

\* handleModelUpload(), case 0x03 FINISH
HandleFinish(data) ==
    /\ Len(data) >= 1 /\ data[1] = CMD_FINISH
    /\ upload.state = UPLOAD_RECEIVING => upload.expectedSize <= MaxFinishSize
    /\ cmd' = data[1]
    /\ maxRead' = 0
    /\ UNCHANGED <<uploadExpectedSize, uploadExpectedCrc, uploadNumClasses>>
    /\ LET f == finalizeModelUpload(upload, stored, uploadExpectedCrc)
           validating == StatusRecord(UPLOAD_RECEIVING, 100, STATUS_VALIDATING)
       IN  /\ upload' = f.upload
           /\ stored' = f.stored
           /\ IF f.status = STATUS_SUCCESS
              THEN LET r == reloadModel(nn, f.stored)
                       saving == StatusRecord(UPLOAD_COMPLETE, 100, STATUS_SAVING)
                   IN  /\ nn' = r.nn
                       /\ nnArg' = IF r.called THEN STORE_ADDR ELSE nnArg
                       /\ nnRet' = IF r.called THEN r.ret ELSE nnRet
                       /\ IF r.ret
                          THEN Emit(<<validating, saving,
                                      StatusRecord(UPLOAD_COMPLETE, 100, STATUS_SUCCESS)>>)
                          ELSE Emit(<<validating, saving,
                                      StatusRecord(UPLOAD_ERROR, 100, STATUS_ERROR_FORMAT)>>)
              ELSE /\ Emit(<<validating, FinishFailure(f.status)>>)
                   /\ UNCHANGED <<nn, nnArg, nnRet>>

\* handleModelUpload(), case 0x04 CANCEL
HandleCancel(data) ==
    /\ Len(data) >= 1 /\ data[1] = CMD_CANCEL
    /\ cmd' = data[1]
    /\ maxRead' = 0
    /\ Emit(<<StatusRecord(UPLOAD_IDLE, 0, STATUS_READY)>>)
    /\ UNCHANGED <<upload, stored, nn, nnArg, nnRet, uploadExpectedSize, uploadExpectedCrc,
                   uploadNumClasses>>

\* handleModelUpload(): an empty value, or the default case of the switch
HandleOther(data) ==
    /\ IF Len(data) < 1 THEN TRUE
       ELSE data[1] \notin {CMD_START, CMD_CHUNK, CMD_FINISH, CMD_CANCEL}
    /\ cmd' = IF Len(data) < 1 THEN -1 ELSE data[1]
    /\ maxRead' = IF Len(data) < 1 THEN -1 ELSE 0
    /\ Emit(<<>>)
    /\ UNCHANGED <<upload, stored, nn, nnArg, nnRet, uploadExpectedSize, uploadExpectedCrc,
                   uploadNumClasses>>

\* the state after setup() on a device with no stored model
Init ==
    /\ upload = UploadIdle
    /\ stored = NoStoredModel
    /\ nn = NNConstructed
    /\ uploadExpectedSize = LE32(0)
    /\ uploadExpectedCrc = LE32(0)
    /\ uploadNumClasses = 0
    /\ statusLog = <<>>
    /\ cmd = -1
    /\ maxRead = -1
    /\ nnArg = NULL_PTR
    /\ nnRet = FALSE
    /\ connected = FALSE
    /\ currentMode = MODE_COLLECT
    /\ totalSamples = 0
    /\ inferenceCount = 0
    /\ sequence = 0
    /\ sensorReads = 0
    /\ sampleIndex = 0
    /\ sampleBuffer = [i \in 0..(WINDOW_SIZE - 1) |-> [j \in 0..5 |-> <<0, 1>>]]
    /\ sensorOut = <<>>
    /\ inferenceOut = <<>>
    /\ lastConfidence = <<0, 1>>
    /\ predictCall = NoPredictCall
    /\ labelCall = NoLabelCall

\* calls of handleModelUpload() on their own, one per value written
NextOn(starts, chunks) ==
    \/ \E data \in starts : HandleStart(data) /\ UNCHANGED loopVars
    \/ \E data \in chunks : HandleChunk(data) /\ UNCHANGED loopVars
    \/ \E data \in FinishPayloads : HandleFinish(data) /\ UNCHANGED loopVars
    \/ \E data \in CancelPayloads : HandleCancel(data) /\ UNCHANGED loopVars
    \/ \E data \in OtherPayloads : HandleOther(data) /\ UNCHANGED loopVars

\* the upload protocol: sessions for every image and declared CRC
Next == NextOn(StartsMain, ChunksMain)

Spec == Init /\ [][Next]_vars

\* the parsing of the commands: malformed, oversized and out-of-range payloads
NextEdge == NextOn(StartsEdge, ChunksEdge)

SpecEdge == Init /\ [][NextEdge]_vars

\* uploads for every label set of size 1..8
NextLabels ==
    \/ \E data \in StartsLabels : HandleStart(data) /\ UNCHANGED loopVars
    \/ \E data \in ChunksLabels : HandleChunk(data) /\ UNCHANGED loopVars
    \/ \E data \in FinishPayloads : HandleFinish(data) /\ UNCHANGED loopVars

SpecLabels == Init /\ [][NextLabels]_vars

\* ------------------------------------------------------------------------
\* The engine on its own: loadModel called with any model structure
\* ------------------------------------------------------------------------
NNLoad(addr) ==
    LET r == loadModel(nn, addr, Deref(addr, stored)) IN
    /\ nn' = r.nn
    /\ nnArg' = addr
    /\ nnRet' = r.ret
    /\ UNCHANGED <<upload, stored, uploadExpectedSize, uploadExpectedCrc, uploadNumClasses,
                   statusLog, cmd, maxRead, loopVars>>

NextNN == \E addr \in CandidateAddrs : NNLoad(addr)

SpecNN == Init /\ [][NextNN]_vars

\* ------------------------------------------------------------------------
\* Inference arithmetic (simple_nn.cpp)
\* ------------------------------------------------------------------------
\* A float is held exactly: a value of the window as the pair <<n, d>> (n/d),
\* a value inside predict as an integer multiple of 1/FLOAT_DEN, FLOAT_DEN
\* being the least common multiple of the divisors ACCEL_SCALE and
\* GYRO_DIVISOR. Weights and biases are integers.
FLOAT_DEN == ACCEL_SCALE * (GYRO_DIVISOR \div 8)

Fix(v) == v[1] * (FLOAT_DEN \div v[2])

\* relu(x)
relu(x) == IF x > 0 THEN x ELSE 0

\* the loop of denseLayer over inIdx for one output neuron, from inIdx = from:
\* sum += input[inIdx] * neuronWeights[inIdx]; the terms of weight zero add
\* nothing and are passed over
RECURSIVE NeuronSum(_, _, _, _, _, _)
NeuronSum(sum, input, weights, base, inputSize, from) ==
    LET rest == {k \in DOMAIN weights : k >= base + from /\ k < base + inputSize} IN
    IF rest = {} THEN sum
    ELSE LET k == CHOOSE x \in rest : \A y \in rest : x <= y
         IN  NeuronSum(sum + input[k - base] * weights[k], input, weights, base,
                       inputSize, k - base + 1)

\* SimpleNN::denseLayer(input, output, weights, bias, inputSize, outputSize, useRelu)
denseLayer(input, weights, bias, inputSize, outputSize, useRelu) ==
    [outIdx \in 0..(outputSize - 1) |->
        LET sum == NeuronSum(ArrayAt(bias, outIdx) * FLOAT_DEN, input, weights,
                             outIdx * inputSize, inputSize, 0)
        IN  IF useRelu THEN relu(sum) ELSE sum]

\* expf(x) for x <= 0, in thousandths: 1 at 0, decreasing, 0 below -7
EXP_TABLE == <<1000, 368, 135, 50, 18, 7, 2, 1>>

expf(x) ==
    LET steps == ((0 - x) + FLOAT_DEN - 1) \div FLOAT_DEN
    IN  IF steps < Len(EXP_TABLE) THEN EXP_TABLE[steps + 1] ELSE 0

\* the loop of softmax that finds the maximum, from index i
RECURSIVE SoftmaxMax(_, _, _, _)
SoftmaxMax(values, size, i, maxVal) ==
    IF i >= size THEN maxVal
    ELSE SoftmaxMax(values, size, i + 1, IF values[i] > maxVal THEN values[i] ELSE maxVal)

RECURSIVE SumTo(_, _)
SumTo(f, n) == IF n = 0 THEN 0 ELSE f[n - 1] + SumTo(f, n - 1)

\* variant: the exponentials left as they are, not divided by their sum
softmax_NotNormalised(values, size) ==
    LET maxVal == SoftmaxMax(values, size, 1, values[0])
    IN  [i \in 0..(size - 1) |-> <<expf(values[i] - maxVal), expf(0)>>]

\* SimpleNN::softmax(values, size): the probabilities, each the pair
\* <<exponential, sum of the exponentials>>
softmax(values, size) ==
    LET maxVal == SoftmaxMax(values, size, 1, values[0])
        exps == [i \in 0..(size - 1) |-> expf(values[i] - maxVal)]
        sum == SumTo(exps, size)
    IN  [i \in 0..(size - 1) |-> <<exps[i], sum>>]

\* a > b for two floats held as pairs
FloatGt(a, b) == a[1] * b[2] > b[1] * a[2]

\* variant: the last maximum wins
argmax_LastMaximum(values, size) ==
    CHOOSE i \in 0..(size - 1) :
        /\ \A k \in 0..(size - 1) : ~FloatGt(values[k], values[i])
        /\ \A k \in (i + 1)..(size - 1) : FloatGt(values[i], values[k])

\* the loop of argmax from index i, the maximum so far at maxIdx
RECURSIVE ArgmaxFrom(_, _, _, _)
ArgmaxFrom(values, size, i, maxIdx) ==
    IF i >= size THEN maxIdx
    ELSE ArgmaxFrom(values, size, i + 1,
                    IF FloatGt(values[i], values[maxIdx]) THEN i ELSE maxIdx)

\* SimpleNN::argmax(values, size)
argmax(values, size) == ArgmaxFrom(values, size, 1, 0)

\* predict from the call of argmax on (each intermediate array is a value
\* before the next step reads it)
PredictArgmax(probabilities, n) ==
    CHOOSE r \in { [prediction |-> prediction, probabilities |-> probabilities,
                    lastConfidence |-> probabilities[prediction]] :
                      prediction \in {argmax(probabilities, n)} } : TRUE

\* predict from the call of softmax on
PredictSoftmax(scores, n) ==
    CHOOSE r \in {PredictArgmax(probabilities, n) : probabilities \in {softmax(scores, n)}} : TRUE

\* predict from the second call of denseLayer on
PredictOutputLayer(hiddenOutput, w, n) ==
    CHOOSE r \in {PredictSoftmax(scores, n) :
                     scores \in {denseLayer(hiddenOutput, w.outputWeights, w.outputBias,
                                            NN_HIDDEN_SIZE, n, FALSE)}} : TRUE

\* SimpleNN::predict(input, outputProbabilities): the value returned, the
\* probabilities written and lastConfidence afterwards
predict(e, st, input, conf) ==
    IF ~e.modelLoaded
    THEN [prediction |-> -1, probabilities |-> <<>>, lastConfidence |-> conf]
    ELSE LET w == WeightsOf(Deref(e.model, st))
             fixed == [k \in 0..(NN_INPUT_SIZE - 1) |-> Fix(input[k])]
         IN  CHOOSE r \in
               {PredictOutputLayer(hiddenOutput, w, e.numClasses) :
                   hiddenOutput \in {denseLayer(fixed, w.hiddenWeights, w.hiddenBias,
                                                NN_INPUT_SIZE, NN_HIDDEN_SIZE, TRUE)}} : TRUE

\* ------------------------------------------------------------------------
\* Sliding window and inference (inference.cpp)
\* ------------------------------------------------------------------------
\* a float of the window: the int16 reading over the scale it is divided by
Normalize(raw, j) == <<raw, IF j < 3 THEN ACCEL_SCALE ELSE GYRO_DIVISOR>>

\* variant: no test of the index, the newest sample kept in the last row
addSample_NoGuard(buf, idx, raw) ==
    [buffer |-> [buf EXCEPT ![Min(idx, WINDOW_SIZE - 1)] = [j \in 0..5 |-> Normalize(raw[j], j)]],
     index |-> idx + 1]

\* addSample(ax, ay, az, gx, gy, gz): the buffer and the index afterwards
addSample(buf, idx, raw) ==
    IF idx < WINDOW_SIZE
    THEN [buffer |-> [buf EXCEPT ![idx] = [j \in 0..5 |-> Normalize(raw[j], j)]],
          index |-> idx + 1]
    ELSE [buffer |-> buf, index |-> idx]

\* variant: ready one sample before the window is full
isWindowReady_OneEarly(idx) == idx >= WINDOW_SIZE - 1

\* isWindowReady()
isWindowReady(idx) == idx >= WINDOW_SIZE

\* variant: the buffer flattened channel by channel
flatInput_ChannelMajor(buf) ==
    [k \in 0..(WINDOW_SIZE * 6 - 1) |-> buf[k % WINDOW_SIZE][k \div WINDOW_SIZE]]

\* the loops of runInference that fill flatInput: flatInput[i * 6 + j] = sampleBuffer[i][j]
flatInput(buf) ==
    [k \in 0..(WINDOW_SIZE * 6 - 1) |-> buf[k \div 6][k % 6]]

\* variant: no fallback, an unloaded engine asked to predict
runInference_NoFallback(buf, idx, e, st, conf) ==
    IF ~isWindowReady(idx)
    THEN [prediction |-> -1, confidence |-> <<0, 1>>, called |-> FALSE,
          call |-> NoPredictCall, lastConfidence |-> conf]
    ELSE LET r == predict(e, st, flatInput(buf), conf) IN
         [prediction |-> r.prediction, confidence |-> r.lastConfidence, called |-> TRUE,
          call |-> [input |-> flatInput(buf), probabilities |-> r.probabilities,
                    prediction |-> r.prediction],
          lastConfidence |-> r.lastConfidence]

\* runInference(&confidence): the value returned, *confidence, whether
\* SimpleNN::predict was called and with what, and lastConfidence afterwards
runInference(buf, idx, e, st, conf) ==
    IF ~isWindowReady(idx)
    THEN [prediction |-> -1, confidence |-> <<0, 1>>, called |-> FALSE,
          call |-> NoPredictCall, lastConfidence |-> conf]
    ELSE IF ~e.modelLoaded
    THEN [prediction |-> 0, confidence |-> <<1, 2>>, called |-> FALSE,
          call |-> NoPredictCall, lastConfidence |-> conf]
    ELSE LET r == predict(e, st, flatInput(buf), conf) IN
         [prediction |-> r.prediction, confidence |-> r.lastConfidence, called |-> TRUE,
          call |-> [input |-> flatInput(buf), probabilities |-> r.probabilities,
                    prediction |-> r.prediction],
          lastConfidence |-> r.lastConfidence]

\* the label table of a model structure: the table of a caller's structure;
\* for a stored image the zero bytes that follow it in the buffer
LabelsOf(m) == IF "labels" \in DOMAIN m THEN m.labels ELSE NoLabels

\* SimpleNN::getLabel(uint8_t classIndex)
getLabel(e, st, classIndex) ==
    IF ~e.modelLoaded THEN UNKNOWN_LABEL
    ELSE IF classIndex >= e.numClasses THEN UNKNOWN_LABEL
    ELSE LabelsOf(Deref(e.model, st))[classIndex]

\* getPredictionLabel(int classIndex): the int converted to the uint8_t
\* parameter of getLabel
getPredictionLabel(e, st, classIndex) == getLabel(e, st, classIndex % 256)

\* variant: the index reset without the shift, the oldest samples kept
slideWindow_KeepsOldest(buf) ==
    [buffer |-> buf, index |-> WINDOW_SIZE - WINDOW_STRIDE]

\* slideWindow(): the buffer and the index afterwards
slideWindow(buf) ==
    LET keep == WINDOW_SIZE - WINDOW_STRIDE IN
    [buffer |-> [i \in 0..(WINDOW_SIZE - 1) |->
                    IF i < keep THEN buf[i + WINDOW_STRIDE] ELSE buf[i]],
     index |-> keep]

\* ------------------------------------------------------------------------
\* Control loop (main.cpp loop)
\* ------------------------------------------------------------------------
\* the sensor is read at most this many times
MaxReads == 127
\* the central's writes and disconnects and the sensor's failed reads all
\* happen before the sensor has been read more than this many times
MaxEventReads == 2

\* the six readings of the k-th sample the IMU delivers
SensorRaw(k) == [j \in 0..5 |-> 10 * k + j]

\* (uint8_t)(confidence * 100)
ConfidencePercent(conf) == (conf[1] * 100) \div conf[2]

\* the inference result record
InferenceRecord(r) == <<r.prediction, ConfidencePercent(r.confidence), 0, 0>>

\* the value of millis() at the k-th call of sensor->read(): one sample period
\* of 40 ms for each call
Millis(k) == 40 * k

\* the polynomial of crc8, reflected
CRC8_POLY == 140

\* variant: the bits taken from the top of the byte, the register shifted left
crc8BitStep_MsbFirst(crc, byte, i) ==
    IF ((crc \div 128) + ((byte \div (2 ^ (i - 1))) % 2)) % 2 = 1
    THEN Xor8((crc * 2) % 256, 49)
    ELSE (crc * 2) % 256

\* one round of the bit loop of crc8, i rounds to go, on the byte as given:
\* mix = (crc ^ byte) & 0x01; crc >>= 1; if (mix) crc ^= 0x8C
crc8BitStep(crc, byte, i) ==
    IF (Xor8(crc, (byte \div (2 ^ (8 - i))) % 256) % 2) = 1
    THEN Xor8(crc \div 2, CRC8_POLY)
    ELSE crc \div 2

\* the bit loop of crc8 with i rounds to go; byte >>= 1 after each round
RECURSIVE crc8BitLoop(_, _, _)
crc8BitLoop(crc, byte, i) ==
    CHOOSE r \in {IF i = 0 THEN c ELSE crc8BitLoop(crc8BitStep(c, byte, i), byte, i - 1) :
                     c \in {crc}} : TRUE

\* the byte loop of crc8 from byte k (1-based) on
RECURSIVE crc8From(_, _, _)
crc8From(crc, data, k) ==
    CHOOSE r \in {IF k > Len(data) THEN c
                  ELSE crc8From(crc8BitLoop(c, data[k], 8), data, k + 1) : c \in {crc}} : TRUE

\* crc8(data, len) of sensor_reader.h
crc8(data) == crc8From(0, data, 1)

\* an int16 and a uint16 as they lie in the packed structure
I16Bytes(v) == <<(v % 65536) % 256, (v % 65536) \div 256>>

\* the first 16 bytes of a SensorPacket: ax, ay, az, gx, gy, gz, sequence,
\* timestamp
PacketBody(raw, seq, ts) ==
    I16Bytes(raw[0]) \o I16Bytes(raw[1]) \o I16Bytes(raw[2]) \o I16Bytes(raw[3])
        \o I16Bytes(raw[4]) \o I16Bytes(raw[5]) \o I16Bytes(seq) \o I16Bytes(ts % 65536)

\* the 17 bytes of the packet a successful read fills
SensorPacket(raw, seq, ts) ==
    LET body == PacketBody(raw, seq, ts) IN body \o <<crc8(body)>>

\* variant: the sequence number counts the failed reads too
read_CountsFailures(available, raw, seq, ts) ==
    IF ~available
    THEN [ok |-> FALSE, packet |-> <<>>, sequence |-> (seq + 1) % 65536]
    ELSE [ok |-> TRUE, packet |-> SensorPacket(raw, seq, ts), sequence |-> (seq + 1) % 65536]

\* BMI270Reader::read / LSM9DS1Reader::read: the value returned, the packet
\* and _sequence afterwards; available: the IMU has new data
read(available, raw, seq, ts) ==
    IF ~available
    THEN [ok |-> FALSE, packet |-> <<>>, sequence |-> seq]
    ELSE [ok |-> TRUE, packet |-> SensorPacket(raw, seq, ts), sequence |-> (seq + 1) % 65536]

\* values the central writes in the loop runs
LoopPayloads ==
    {StartMsg(LE32(ImgLen), CrcG1, 1, LabelTail(1)), ChunkMsg(LE32(0), ImgG1),
     <<CMD_FINISH>>, <<CMD_CANCEL>>}

\* modes the central writes; -1: the mode characteristic was not written
ModeWrites == {-1, MODE_COLLECT, MODE_INFERENCE}

\* variant: the gate tested on the state before handleModelUpload() ran
UploadGate_BeforeHandler(state) == getUploadState(upload) = UPLOAD_RECEIVING

\* if (getUploadState() == UPLOAD_RECEIVING) continue, given what getUploadState() returned
UploadGate(state) == state = UPLOAD_RECEIVING

\* variant: a session that receives nothing in an iteration is dropped
NotWritten_DropsSession ==
    /\ cmd' = -1
    /\ maxRead' = -1
    /\ Emit(<<>>)
    /\ upload' = IF upload.state = UPLOAD_RECEIVING THEN UploadIdle ELSE upload
    /\ UNCHANGED <<stored, nn, nnArg, nnRet, uploadExpectedSize, uploadExpectedCrc,
                   uploadNumClasses>>

\* handleModelUpload() when the upload characteristic was not written
NotWritten ==
    /\ cmd' = -1
    /\ maxRead' = -1
    /\ Emit(<<>>)
    /\ UNCHANGED <<upload, stored, nn, nnArg, nnRet, uploadExpectedSize, uploadExpectedCrc,
                   uploadNumClasses>>

\* handleModelUpload() on a value written
HandleWritten(data) ==
    \/ HandleStart(data)
    \/ HandleChunk(data)
    \/ HandleFinish(data)
    \/ HandleCancel(data)

\* the rest of an iteration of while (central.connected()), after
\* handleModelUpload(): the upload gate, the sample timer, the sensor read,
\* the window and the inference
SampleStep(due, readOk) ==
    IF UploadGate(getUploadState(upload')) \/ ~due
    THEN UNCHANGED <<totalSamples, inferenceCount, sequence, sensorReads, sampleIndex,
                     sampleBuffer, sensorOut, inferenceOut, lastConfidence, predictCall>>
    ELSE \E packet \in {read(readOk, SensorRaw(sequence), sequence, Millis(sensorReads))} :
         /\ sensorReads' = sensorReads + 1
         /\ sequence' = packet.sequence
         /\ IF ~packet.ok
            THEN UNCHANGED <<totalSamples, inferenceCount, sampleIndex,
                             sampleBuffer, sensorOut, inferenceOut, lastConfidence,
                             predictCall>>
            ELSE /\ totalSamples' = totalSamples + 1
                 /\ IF currentMode' = MODE_COLLECT
                    THEN /\ sensorOut' = packet.packet
                         /\ UNCHANGED <<inferenceCount, sampleIndex, sampleBuffer, inferenceOut,
                                        lastConfidence, predictCall>>
                    ELSE IF currentMode' = MODE_INFERENCE
                    THEN \E a \in {addSample(sampleBuffer, sampleIndex, SensorRaw(sequence))} :
                         /\ UNCHANGED sensorOut
                         /\ IF isWindowReady(a.index)
                            THEN /\ \E r \in {runInference(a.buffer, a.index, nn', stored',
                                                            lastConfidence)} :
                                        /\ lastConfidence' = r.lastConfidence
                                        /\ predictCall' = IF r.called THEN r.call
                                                          ELSE predictCall
                                        /\ IF r.prediction >= 0
                                           THEN /\ inferenceOut' = InferenceRecord(r)
                                                /\ inferenceCount' = inferenceCount + 1
                                           ELSE UNCHANGED <<inferenceOut, inferenceCount>>
                                 /\ sampleBuffer' = slideWindow(a.buffer).buffer
                                 /\ sampleIndex' = slideWindow(a.buffer).index
                            ELSE /\ sampleBuffer' = a.buffer
                                 /\ sampleIndex' = a.index
                                 /\ UNCHANGED <<inferenceOut, inferenceCount, lastConfidence,
                                                predictCall>>
                    ELSE UNCHANGED <<inferenceCount, sampleIndex, sampleBuffer, sensorOut,
                                     inferenceOut, lastConfidence, predictCall>>

\* the mode characteristic, the timer and the sensor of one iteration
IterationInputs(mode, due, readOk) ==
    /\ connected /\ UNCHANGED <<connected, labelCall>>
    /\ mode # -1 => sensorReads <= MaxEventReads
    /\ due => sensorReads < MaxReads
    /\ ~readOk => (due /\ sensorReads <= MaxEventReads)
    /\ currentMode' = IF mode = -1 THEN currentMode ELSE mode

\* an iteration in which the upload characteristic was written
LoopCommand(data, mode, due, readOk) ==
    /\ sensorReads <= MaxEventReads
    /\ IterationInputs(mode, due, readOk)
    /\ HandleWritten(data)
    /\ SampleStep(due, readOk)

\* an iteration in which it was not
LoopNoCommand(mode, due, readOk) ==
    /\ IterationInputs(mode, due, readOk)
    /\ NotWritten
    /\ SampleStep(due, readOk)

\* BLE.central() returns a central: the while loop is entered
Connect ==
    /\ ~connected
    /\ connected' = TRUE
    /\ UNCHANGED <<upload, stored, nn, uploadExpectedSize, uploadExpectedCrc, uploadNumClasses,
                   statusLog, cmd, maxRead, nnArg, nnRet, currentMode, totalSamples,
                   inferenceCount, sequence, sensorReads, sampleIndex, sampleBuffer,
                   sensorOut, inferenceOut, lastConfidence, predictCall, labelCall>>

\* central.connected() turns false: the while loop is left
Disconnect ==
    /\ connected
    /\ sensorReads <= MaxEventReads
    /\ connected' = FALSE
    /\ UNCHANGED <<upload, stored, nn, uploadExpectedSize, uploadExpectedCrc, uploadNumClasses,
                   statusLog, cmd, maxRead, nnArg, nnRet, currentMode, totalSamples,
                   inferenceCount, sequence, sensorReads, sampleIndex, sampleBuffer,
                   sensorOut, inferenceOut, lastConfidence, predictCall, labelCall>>

NextLoop ==
    \/ Connect
    \/ Disconnect
    \/ \E data \in LoopPayloads, mode \in ModeWrites, due \in BOOLEAN, readOk \in BOOLEAN :
          LoopCommand(data, mode, due, readOk)
    \/ \E mode \in ModeWrites, due \in BOOLEAN, readOk \in BOOLEAN :
          LoopNoCommand(mode, due, readOk)

SpecLoop == Init /\ [][NextLoop]_vars

\* ------------------------------------------------------------------------
\* The window on its own: addSample() and slideWindow() called in any order
\* ------------------------------------------------------------------------
\* addSample is called at most this many times
MaxAppends == 104
\* slideWindow is called on a window that is not within one sample of full
\* only before addSample has been called more than this many times
MaxEarlyAppends == 2

\* addSample() called with the next sample of the IMU; on a full window only
\* once WINDOW_SIZE samples have been delivered
WindowAppend ==
    /\ sequence < MaxAppends
    /\ IF sampleIndex >= WINDOW_SIZE THEN sequence >= WINDOW_SIZE ELSE TRUE
    /\ LET a == addSample(sampleBuffer, sampleIndex, SensorRaw(sequence)) IN
          /\ sampleBuffer' = a.buffer
          /\ sampleIndex' = a.index
    /\ sequence' = sequence + 1
    /\ UNCHANGED <<upload, stored, nn, uploadExpectedSize, uploadExpectedCrc, uploadNumClasses,
                   statusLog, cmd, maxRead, nnArg, nnRet, connected, currentMode,
                   totalSamples, inferenceCount, sensorReads, sensorOut, inferenceOut,
                   lastConfidence, predictCall, labelCall>>

\* slideWindow() called
WindowSlide ==
    /\ IF sequence <= MaxEarlyAppends THEN TRUE ELSE sampleIndex >= WINDOW_SIZE - 1
    /\ sampleBuffer' = slideWindow(sampleBuffer).buffer
    /\ sampleIndex' = slideWindow(sampleBuffer).index
    /\ UNCHANGED <<upload, stored, nn, uploadExpectedSize, uploadExpectedCrc, uploadNumClasses,
                   statusLog, cmd, maxRead, nnArg, nnRet, connected, currentMode,
                   totalSamples, inferenceCount, sequence, sensorReads, sensorOut,
                   inferenceOut, lastConfidence, predictCall, labelCall>>

NextWindow == WindowAppend \/ WindowSlide

SpecWindow == Init /\ [][NextWindow]_vars

\* ------------------------------------------------------------------------
\* The engine's arithmetic on its own: predict called on any loaded model
\* ------------------------------------------------------------------------
\* an input vector given by its non-zero entries
InputOf(entries) ==
    [k \in 0..(NN_INPUT_SIZE - 1) |-> IF k \in DOMAIN entries THEN entries[k] ELSE <<0, 1>>]

\* input vectors a caller of SimpleNN::predict passes: all zero; ax of sample
\* 0 at 1.0; ax of sample 0 at 1.0 and gz of sample 99 at 2.0; ax of sample 1
\* at 2.0
PredictInputs ==
    { InputOf([k \in {} |-> <<0, 1>>]),
      InputOf(0 :> <<ACCEL_SCALE, ACCEL_SCALE>>),
      InputOf((0 :> <<ACCEL_SCALE, ACCEL_SCALE>>)
              @@ (NN_INPUT_SIZE - 1 :> <<2 * GYRO_DIVISOR, GYRO_DIVISOR>>)),
      InputOf(6 :> <<2 * ACCEL_SCALE, ACCEL_SCALE>>) }

\* SimpleNN::predict called with an input vector
PredictCall(input) ==
    LET r == predict(nn, stored, input, lastConfidence) IN
    /\ lastConfidence' = r.lastConfidence
    /\ predictCall' = [input |-> input, probabilities |-> r.probabilities,
                       prediction |-> r.prediction]
    /\ UNCHANGED <<upload, stored, nn, uploadExpectedSize, uploadExpectedCrc, uploadNumClasses,
                   statusLog, cmd, maxRead, nnArg, nnRet, connected, currentMode,
                   totalSamples, inferenceCount, sequence, sensorReads, sampleIndex,
                   sampleBuffer, sensorOut, inferenceOut, labelCall>>

NextPredict ==
    \/ \E addr \in PredictAddrs : NNLoad(addr)
    \/ \E input \in PredictInputs : PredictCall(input)

SpecPredict == Init /\ [][NextPredict]_vars

\* ------------------------------------------------------------------------
\* The label query on its own: getPredictionLabel called with any index
\* ------------------------------------------------------------------------
\* class indices a caller passes
LabelIndices == {-257, -256, -255, -1, 0, 1, 7, 8, 255, 256, 257, 263, 264}

\* models a caller loads before it asks: every valid one, and one that
\* loadModel refuses
LabelAddrs == PredictAddrs \cup {2}

\* getPredictionLabel called with a class index
LabelQuery(classIndex) ==
    /\ labelCall' = [classIndex |-> classIndex,
                     label |-> getPredictionLabel(nn, stored, classIndex)]
    /\ UNCHANGED <<upload, stored, nn, uploadExpectedSize, uploadExpectedCrc, uploadNumClasses,
                   statusLog, cmd, maxRead, nnArg, nnRet, connected, currentMode,
                   totalSamples, inferenceCount, sequence, sensorReads, sampleIndex,
                   sampleBuffer, sensorOut, inferenceOut, lastConfidence, predictCall>>

NextLabel ==
    \/ \E addr \in LabelAddrs : NNLoad(addr)
    \/ \E classIndex \in LabelIndices : LabelQuery(classIndex)

SpecLabel == Init /\ [][NextLabel]_vars

\* ------------------------------------------------------------------------
\* The control loop with the active model cleared between two iterations
\* ------------------------------------------------------------------------
\* clearStoredModel() called; SimpleNN has no operation that unloads it, and
\* none of its members is reachable from the store
ClearModel ==
    /\ sensorReads <= MaxEventReads
    /\ hasStoredModel(stored)
    /\ stored' = clearStoredModel(stored)
    /\ UNCHANGED <<upload, nn, uploadExpectedSize, uploadExpectedCrc, uploadNumClasses,
                   statusLog, cmd, maxRead, nnArg, nnRet, loopVars>>

NextClear == NextLoop \/ ClearModel

SpecClear == Init /\ [][NextClear]_vars

\* ------------------------------------------------------------------------
\* Sensor reader on its own: read() on readings, sequence numbers and clock
\* values from the whole range of their types
\* ------------------------------------------------------------------------
\* the six scaled readings: the same value on every axis, or six different
PacketReadings ==
    {[j \in 0..5 |-> c] : c \in {-32768, -1, 0, 1, 255, 256, 32767}}
        \cup {SensorRaw(3), [j \in 0..5 |-> 300 * j - 700]}

\* _sequence before the call
PacketSequences == {0, 1, 255, 256, 65535}

\* millis() at the call
PacketClocks == {0, 40, 65535, 65541}

\* sensor->read(packet) with the IMU's answer, and the packet written out
PacketRead(available, raw, seq, ts) ==
    \E r \in {read(available, raw, seq, ts)} :
        /\ sequence' = r.sequence
        /\ sensorOut' = IF r.ok THEN r.packet ELSE sensorOut
        /\ UNCHANGED <<upload, stored, nn, uploadExpectedSize, uploadExpectedCrc,
                       uploadNumClasses, statusLog, cmd, maxRead, nnArg, nnRet, connected,
                       currentMode, totalSamples, inferenceCount, sensorReads, sampleIndex,
                       sampleBuffer, inferenceOut, lastConfidence, predictCall, labelCall>>

NextPacket ==
    \E available \in BOOLEAN, raw \in PacketReadings, seq \in PacketSequences,
       ts \in PacketClocks : PacketRead(available, raw, seq, ts)

SpecPacket == Init /\ [][NextPacket]_vars

\* ------------------------------------------------------------------------
\* Starts whose class-count byte and whose labels do not go together
\* ------------------------------------------------------------------------
\* class-count bytes of the Starts
CountBytes == {0, 1, 2, NN_MAX_CLASSES, NN_MAX_CLASSES + 1, 255}

\* numbers of labels the payloads carry
LabelCounts == {0, 1, 2, NN_MAX_CLASSES, NN_MAX_CLASSES + 1}

StartsCount ==
    {StartMsg(LE32(ImgLen), CrcG1, n, LabelTail(k)) : n \in CountBytes, k \in LabelCounts}

NextCount == NextOn(StartsCount, ChunksOfG1)

SpecCount == Init /\ [][NextCount]_vars

\* ------------------------------------------------------------------------
\* The loop with its timer: while the central stays connected the sample
\* interval elapses again and again (millis() advances, main.cpp:439), so an
\* iteration whose timer is due and in which nothing was written keeps coming
\* ------------------------------------------------------------------------
SpecLoopFair ==
    SpecLoop /\ WF_vars(\E readOk \in BOOLEAN : LoopNoCommand(-1, TRUE, readOk))

\* ========================================================================
\* Properties
\* ========================================================================

\* C1: a Cancel sent while the store is Receiving leaves getUploadState() at
\* Idle, and hasModel() keeps the value it had.
C1_CancelReturnsToIdle ==
    [][\A data \in CancelPayloads :
          (HandleCancel(data) /\ getUploadState(upload) = UPLOAD_RECEIVING)
              => /\ getUploadState(upload') = UPLOAD_IDLE
                 /\ hasStoredModel(stored') = hasStoredModel(stored)]_vars

\* ------------------------------------------------------------------------
\* the session a well-formed Start of n labels for ImgLen bytes opens
SessionOf(n) ==
    [ state |-> UPLOAD_RECEIVING, expectedSize |-> ImgLen, numClasses |-> n,
      receivedBytes |-> 0, buffer |-> EmptyBuffer,
      labels |-> [i \in 0..(NN_MAX_CLASSES - 1) |-> IF i < n THEN LabelText(i) ELSE <<>>] ]

\* C2: for every label set of size 1..8 and its valid model, a Finish that
\* arrives when the chunks have covered every byte of the image and the
\* declared CRC is the image's leaves the store Complete with the image and the
\* labels committed, the status Complete/Success, and the engine loaded from
\* the new model.
C2_ValidUploadCompletes ==
    [][\A data \in FinishPayloads : \A n \in 1..NN_MAX_CLASSES :
          ( /\ HandleFinish(data)
            /\ upload.state = UPLOAD_RECEIVING
            /\ upload.numClasses = n
            /\ upload.labels = SessionOf(n).labels
            /\ upload.receivedBytes = upload.expectedSize
            /\ ReceivedImage(upload) = ImgOfClasses(n)
            /\ uploadExpectedCrc = calculateCrc32(ImgOfClasses(n)) )
              => /\ upload'.state = UPLOAD_COMPLETE
                 /\ statusLog'[Len(statusLog')] = <<UPLOAD_COMPLETE, 100, STATUS_SUCCESS, 0>>
                 /\ hasStoredModel(stored')
                 /\ stored'.data = ImgOfClasses(n)
                 /\ stored'.numClasses = n
                 /\ stored'.labels = SessionOf(n).labels
                 /\ nn' = [modelLoaded |-> TRUE, numClasses |-> n, model |-> STORE_ADDR]]_vars

C2_Witness ==
    /\ cmd = CMD_FINISH
    /\ upload.state = UPLOAD_COMPLETE
    /\ LastStatus = <<UPLOAD_COMPLETE, 100, STATUS_SUCCESS, 0>>
    /\ stored.valid /\ stored.numClasses = NN_MAX_CLASSES
    /\ stored.labels[NN_MAX_CLASSES - 1] = LabelText(NN_MAX_CLASSES - 1)
    /\ nn.modelLoaded /\ nn.numClasses = NN_MAX_CLASSES /\ nn.model = STORE_ADDR


C4_FailureKeepsActiveModel ==
    [][( /\ hasStoredModel(stored) /\ nn.modelLoaded
         /\ cmd' \in {CMD_START, CMD_CHUNK, CMD_FINISH}
         /\ statusLog'[Len(statusLog')][3] # STATUS_SUCCESS )
           => /\ hasStoredModel(stored')
              /\ stored'.numClasses = stored.numClasses
              /\ stored'.labels = stored.labels
              /\ nn' = nn
              /\ Deref(nn'.model, stored') = Deref(nn.model, stored)]_vars

\* ------------------------------------------------------------------------
\* the four checks of a model header, on the field bytes
HeaderValid(m) ==
    /\ m.magic = SIMPLE_NN_MAGIC
    /\ m.inputSize = <<NN_INPUT_SIZE % 256, NN_INPUT_SIZE \div 256, 0, 0>>
    /\ m.hiddenSize = <<NN_HIDDEN_SIZE, 0, 0, 0>>
    /\ \E n \in 1..NN_MAX_CLASSES : m.numClasses = <<n, 0, 0, 0>>

\* C5: whenever the engine is Loaded, the model it references has the magic
\* sentinel, inputSize 600, hiddenSize 32 and 1 <= numClasses <= 8; after a
\* loadModel of a candidate failing any of the four checks the engine is not
\* marked loaded.
C5_LoadedModelIsValid ==
    /\ nn.modelLoaded =>
          /\ HeaderValid(EngineModel)
          /\ EngineModel.numClasses = <<nn.numClasses, 0, 0, 0>>
    /\ (nnArg \in CandidateAddrs /\ ~HeaderValid(CandidateAt(nnArg))) =>
          (~nnRet /\ ~nn.modelLoaded)

C5_Witness ==
    /\ nnArg \in CandidateAddrs
    /\ nnRet /\ nn.modelLoaded /\ nn.model = nnArg
    /\ nn.numClasses = NN_MAX_CLASSES

\* ------------------------------------------------------------------------
\* C6: a loadModel that fails validation leaves the engine exactly as it was,
\* a Loaded engine still Loaded with its model.
C6_FailedLoadKeepsEngine ==
    [][(NNLoad(nnArg') /\ ~HeaderValid(CandidateAt(nnArg'))) => nn' = nn]_vars


\* ------------------------------------------------------------------------
\* offset + length of a Chunk payload, as integers, beyond the declared size
ChunkBeyond(data, expectedSize) ==
    \/ data[5] # 0
    \/ data[2] + 256 * data[3] + 65536 * data[4] + (Len(data) - 5) > expectedSize

\* C7: a Chunk whose offset + length, taken without 32-bit wrap, exceeds
\* expectedSize is rejected: no byte of the buffer is written, receivedBytes
\* and the state (Receiving) stay as they were, and the status reports the
\* format error.
C7_ChunkBeyondSizeRejected ==
    [][\A data \in ChunksEdge :
          ( /\ HandleChunk(data)
            /\ Len(data) >= 5
            /\ upload.state = UPLOAD_RECEIVING
            /\ ChunkBeyond(data, upload.expectedSize) )
              => /\ upload' = upload
                 /\ statusLog' = << <<UPLOAD_ERROR, getUploadProgress(upload),
                                      STATUS_ERROR_FORMAT, 0>> >>]_vars

\* a Chunk refused in a session that had received the header of the image
C7_Witness ==
    /\ cmd = CMD_CHUNK /\ maxRead = 4
    /\ upload.state = UPLOAD_RECEIVING
    /\ upload.receivedBytes = HEADER_LEN
    /\ LastStatus = <<UPLOAD_ERROR, getUploadProgress(upload), STATUS_ERROR_FORMAT, 0>>

\* ------------------------------------------------------------------------
\* the zero bytes among the label bytes of a Start payload
LabelTerminators(data) == {i \in (START_HEADER_LEN + 1)..Len(data) : data[i] = 0}

\* a Start with a label that has no terminator before the payload ends
UnterminatedStart(data) ==
    /\ Len(data) > START_HEADER_LEN
    /\ data[Len(data)] # 0
    /\ Cardinality(LabelTerminators(data)) < data[START_HEADER_LEN]

\* C8: a Start with a label that has no terminator inside the payload ends
\* with the status Error/FormatError; the handling of a Start never reads a
\* payload index >= its length; and a well-formed Start is accepted into the
\* same session and upload parameters whatever was sent before it.
C8_UnterminatedLabelRejected ==
    [][\A data \in StartsEdge :
          HandleStart(data) =>
              /\ maxRead' < Len(data)
              /\ UnterminatedStart(data) =>
                    statusLog' = << <<UPLOAD_ERROR, 0, STATUS_ERROR_FORMAT, 0>> >>
              /\ \A n \in 1..MaxLabels :
                    data = StartMsg(LE32(ImgLen), CrcG1, n, LabelTail(n)) =>
                        /\ upload' = SessionOf(n)
                        /\ uploadExpectedSize' = LE32(ImgLen)
                        /\ uploadExpectedCrc' = CrcG1
                        /\ uploadNumClasses' = n
                        /\ statusLog' = << <<UPLOAD_RECEIVING, 0, STATUS_RECEIVING, 0>> >>]_vars

\* the rejection of a Start whose second label runs to the end of the payload
C8_Witness ==
    /\ cmd = CMD_START
    /\ LastStatus = <<UPLOAD_ERROR, 0, STATUS_ERROR_FORMAT, 0>>
    /\ uploadNumClasses = 2
    /\ maxRead = START_HEADER_LEN + 2

\* ------------------------------------------------------------------------
\* the size a Start payload declares exceeds the capacity
DeclaresTooMuch(data) ==
    \/ data[5] # 0
    \/ data[2] + 256 * data[3] + 65536 * data[4] > MAX_MODEL_SIZE

\* C9: a Start that declares more than MAX_MODEL_SIZE bytes ends with the
\* status Error/SizeError and opens no session; a Start that declares at most
\* MAX_MODEL_SIZE bytes is not rejected for its size.
C9_SizeLimit ==
    [][\A data \in StartsEdge :
          (HandleStart(data) /\ Len(data) >= START_HEADER_LEN) =>
              IF DeclaresTooMuch(data)
              THEN /\ statusLog' = << <<UPLOAD_ERROR, 0, STATUS_ERROR_SIZE, 0>> >>
                   /\ upload' = upload
              ELSE /\ statusLog'[Len(statusLog')][3] # STATUS_ERROR_SIZE
                   /\ upload'.expectedSize = data[2] + 256 * data[3] + 65536 * data[4]]_vars

\* the rejection of a Start declaring one byte more than the capacity
C9_Witness ==
    /\ cmd = CMD_START
    /\ LastStatus = <<UPLOAD_ERROR, 0, STATUS_ERROR_SIZE, 0>>
    /\ uploadExpectedSize = LE32(MAX_MODEL_SIZE + 1)
    /\ upload.state = UPLOAD_IDLE

\* ------------------------------------------------------------------------
\* C10: a Start shorter than 10 bytes and a Chunk shorter than 5 bytes end with
\* the status Error/FormatError, read no payload index >= the length, and
\* leave the upload buffer and the session as they were.
C10_ShortPayloadRejected ==
    [][\A data \in StartsEdge \cup ChunksEdge :
          ( \/ HandleStart(data) /\ Len(data) < 10
            \/ HandleChunk(data) /\ Len(data) < 5 )
              => /\ statusLog' = << <<UPLOAD_ERROR, 0, STATUS_ERROR_FORMAT, 0>> >>
                 /\ maxRead' < Len(data)
                 /\ upload' = upload]_vars

\* the rejection of a 4-byte Chunk in a session that had received the header
C10_Witness ==
    /\ cmd = CMD_CHUNK /\ maxRead = 0
    /\ LastStatus = <<UPLOAD_ERROR, 0, STATUS_ERROR_FORMAT, 0>>
    /\ upload.state = UPLOAD_RECEIVING
    /\ upload.receivedBytes = HEADER_LEN


\* ------------------------------------------------------------------------
\* C11: after a rejected Start, a rejected Chunk or a failed Finish the upload
\* session's state is Error; from Error every command other than Cancel
\* (which gives Idle) and Start (which can give Receiving) leaves it Error;
\* and the state becomes Receiving only by a Start, Complete only by a Finish.
C11_FailureLeavesError ==
    [][ /\ ( /\ cmd' \in {CMD_START, CMD_CHUNK, CMD_FINISH}
             /\ statusLog'[Len(statusLog')][1] = UPLOAD_ERROR )
               => getUploadState(upload') = UPLOAD_ERROR
        /\ (getUploadState(upload) = UPLOAD_ERROR /\ cmd' \notin {CMD_START, CMD_CANCEL})
               => getUploadState(upload') = UPLOAD_ERROR
        /\ (getUploadState(upload) = UPLOAD_ERROR /\ cmd' = CMD_CANCEL)
               => getUploadState(upload') = UPLOAD_IDLE
        /\ (getUploadState(upload) # UPLOAD_RECEIVING /\ getUploadState(upload') = UPLOAD_RECEIVING)
               => cmd' = CMD_START
        /\ (getUploadState(upload) # UPLOAD_COMPLETE /\ getUploadState(upload') = UPLOAD_COMPLETE)
               => cmd' = CMD_FINISH ]_vars

\* ------------------------------------------------------------------------
\* C12: an accepted Start that arrives while a session is Receiving leaves one
\* session, the new one: nothing received, an empty buffer (no byte of the old
\* session's chunks), and the size, CRC, class count and labels of the new
\* Start.
C12_NewStartReplacesSession ==
    [][\A data \in StartsGood :
          (HandleStart(data) /\ getUploadState(upload) = UPLOAD_RECEIVING)
              => /\ upload'.state = UPLOAD_RECEIVING
                 /\ upload'.receivedBytes = 0
                 /\ upload'.buffer = EmptyBuffer
                 /\ ReceivedImage(upload') = [i \in 1..ImgLen |-> 0]
                 /\ upload'.expectedSize = ImgLen
                 /\ uploadExpectedCrc' = <<data[6], data[7], data[8], data[9]>>
                 /\ upload'.numClasses = data[10]
                 /\ upload'.labels = SessionOf(data[10]).labels]_vars

\* a session of one class just opened for the image of ImgG2 with nothing
\* received, while the model of an earlier session is active
C12_Witness ==
    /\ cmd = CMD_START
    /\ LastStatus = <<UPLOAD_RECEIVING, 0, STATUS_RECEIVING, 0>>
    /\ upload.state = UPLOAD_RECEIVING /\ upload.receivedBytes = 0
    /\ upload.buffer = EmptyBuffer
    /\ upload.numClasses = 1 /\ upload.labels[1] = <<>>
    /\ uploadExpectedCrc = CrcG2
    /\ stored.valid /\ stored.numClasses = 2

\* ------------------------------------------------------------------------
\* the length of the longest prefix [0, n) of the model whose bytes have all
\* been written
WrittenPrefix(up) ==
    CHOOSE n \in 0..(up.expectedSize + 1) :
        /\ \A o \in 0..(n - 1) : o \in DOMAIN up.buffer
        /\ n \notin DOMAIN up.buffer

\* C13: in a session, receivedBytes is the length of the longest prefix of the
\* model written by accepted chunks, whatever their order and however often
\* they were delivered; it never exceeds expectedSize, every written byte lies
\* below expectedSize, and no Chunk decreases it.
C13_ReceivedBytesIsPrefix ==
    [][ /\ upload'.state = UPLOAD_RECEIVING =>
               /\ upload'.receivedBytes = WrittenPrefix(upload')
               /\ upload'.receivedBytes <= upload'.expectedSize
               /\ \A o \in DOMAIN upload'.buffer : o < upload'.expectedSize
        /\ cmd' = CMD_CHUNK => upload'.receivedBytes >= upload.receivedBytes ]_vars

\* the weights delivered before the header: bytes written, none of them contiguous
C13_Witness ==
    /\ cmd = CMD_CHUNK
    /\ upload.state = UPLOAD_RECEIVING
    /\ DOMAIN upload.buffer = HEADER_LEN..(ImgLen - 1)
    /\ upload.receivedBytes = 0
    /\ LastStatus = <<UPLOAD_RECEIVING, 0, STATUS_RECEIVING, 0>>


C15_BadHeaderNotCommitted ==
    [][\A data \in FinishPayloads :
          ( /\ HandleFinish(data)
            /\ upload.state = UPLOAD_RECEIVING
            /\ calculateCrc32(ReceivedImage(upload)) = uploadExpectedCrc
            /\ ~HeaderValid(StructOf(ReceivedImage(upload))) )
              => /\ statusLog'[Len(statusLog')] = <<UPLOAD_ERROR, 100, STATUS_ERROR_FORMAT, 0>>
                 /\ hasStoredModel(stored') = hasStoredModel(stored)
                 /\ stored'.data = stored.data
                 /\ nn'.modelLoaded = nn.modelLoaded
                 /\ nn'.model = nn.model]_vars

\* ------------------------------------------------------------------------
\* the payload index (0-based) at which label i of a Start begins: after the
\* i-th terminator of the label bytes
RECURSIVE LabelBegin(_, _)
LabelBegin(data, i) ==
    IF i = 0 THEN START_HEADER_LEN
    ELSE 1 + CHOOSE z \in LabelBegin(data, i - 1)..(Len(data) - 1) :
                /\ data[z + 1] = 0
                /\ \A y \in LabelBegin(data, i - 1)..(z - 1) : data[y + 1] # 0

\* label i of a Start as the payload carries it, without its terminator
LabelSent(data, i) ==
    LET b == LabelBegin(data, i)
        e == LabelBegin(data, i + 1) - 1
    IN  [k \in 1..(e - b) |-> data[b + k]]

\* the first min(length, 15) characters
First15(label) == [k \in 1..(IF Len(label) < 15 THEN Len(label) ELSE 15) |-> label[k]]

C17_StatusAfterEveryCommand ==
    cmd \in {CMD_START, CMD_CHUNK, CMD_FINISH, CMD_CANCEL} =>
        /\ Len(statusLog) >= 1
        /\ \A k \in 1..Len(statusLog) :
              /\ Len(statusLog[k]) = 4
              /\ statusLog[k][1] \in {UPLOAD_IDLE, UPLOAD_RECEIVING, UPLOAD_COMPLETE, UPLOAD_ERROR}
              /\ statusLog[k][2] \in 0..100
              /\ statusLog[k][4] = 0

\* a Finish refused for its CRC: the record of the validation, then the error
C17_Witness ==
    /\ cmd = CMD_FINISH
    /\ Len(statusLog) = 2
    /\ statusLog[1] = <<UPLOAD_RECEIVING, 100, STATUS_VALIDATING, 0>>
    /\ statusLog[2] = <<UPLOAD_ERROR, 100, STATUS_ERROR_CRC, 0>>


\* ------------------------------------------------------------------------
\* C18: in an iteration of the connected loop the upload command is handled
\* first, and if the upload state is then Receiving the iteration reads no
\* sensor, appends no sample and runs no inference.
C18_UploadBeforeSampling ==
    [][getUploadState(upload') = UPLOAD_RECEIVING =>
          /\ sensorReads' = sensorReads
          /\ totalSamples' = totalSamples
          /\ sequence' = sequence
          /\ sampleIndex' = sampleIndex
          /\ sampleBuffer' = sampleBuffer
          /\ inferenceCount' = inferenceCount
          /\ inferenceOut' = inferenceOut
          /\ sensorOut' = sensorOut]_vars

\* sampling paused by a session: iterations without a command passed while
\* the window held samples taken before the Start
C18_Witness ==
    /\ connected /\ cmd = -1
    /\ upload.state = UPLOAD_RECEIVING
    /\ currentMode = MODE_INFERENCE
    /\ sampleIndex > 0 /\ sensorReads = sampleIndex

\* ------------------------------------------------------------------------
\* C19: while a session is Receiving, an iteration in which no upload value
\* was written, a disconnect and a reconnect leave the session as it is: the
\* state, expectedSize, receivedBytes and the buffer.
C19_ReceivingPersists ==
    [][( /\ getUploadState(upload) = UPLOAD_RECEIVING
         /\ (cmd' = -1 \/ connected' # connected) )
           => /\ getUploadState(upload') = UPLOAD_RECEIVING
              /\ upload'.expectedSize = upload.expectedSize
              /\ upload'.receivedBytes = upload.receivedBytes
              /\ upload'.buffer = upload.buffer]_vars

\* a session that had received its image, the central disconnected
C19_Witness ==
    /\ ~connected
    /\ upload.state = UPLOAD_RECEIVING
    /\ upload.receivedBytes = ImgLen
    /\ cmd = -1

\* ------------------------------------------------------------------------
\* C20: a sample that fills the window while no model is loaded gives the
\* inference result class 0 with confidence 0.5, written as <<0, 50, 0, 0>>
\* and counted, whatever the window holds.
C20_FallbackInference ==
    [][( /\ sampleIndex = WINDOW_SIZE - 1
         /\ totalSamples' = totalSamples + 1
         /\ currentMode' = MODE_INFERENCE
         /\ ~nn'.modelLoaded )
           => /\ LET r == runInference(sampleBuffer, WINDOW_SIZE, nn', stored',
                                        lastConfidence)
                 IN  r.prediction = 0 /\ r.confidence = <<1, 2>> /\ ~r.called
              /\ predictCall' = predictCall
              /\ inferenceOut' = <<0, 50, 0, 0>>
              /\ inferenceCount' = inferenceCount + 1]_vars

\* the first fallback result, the window slid
C20_Witness ==
    /\ ~nn.modelLoaded
    /\ inferenceOut = <<0, 50, 0, 0>>
    /\ inferenceCount = 1
    /\ sampleIndex = WINDOW_SIZE - WINDOW_STRIDE

\* ------------------------------------------------------------------------
\* C21: whatever the order of the addSample and slideWindow calls from the
\* empty window, the fill count stays in 0..WINDOW_SIZE, isWindowReady() is
\* true exactly when it is WINDOW_SIZE, and an addSample on a full window
\* changes neither the fill count nor a stored sample.
C21_WindowFill ==
    [][ /\ sampleIndex \in 0..WINDOW_SIZE
        /\ sampleIndex' \in 0..WINDOW_SIZE
        /\ isWindowReady(sampleIndex') <=> (sampleIndex' = WINDOW_SIZE)
        /\ (WindowAppend /\ sampleIndex = WINDOW_SIZE)
              => /\ sampleIndex' = sampleIndex
                 /\ sampleBuffer' = sampleBuffer ]_vars

\* a full window of the samples 0..99 on which addSample was called again
C21_Witness ==
    /\ sampleIndex = WINDOW_SIZE
    /\ sequence = WINDOW_SIZE + 1
    /\ \A i \in 0..(WINDOW_SIZE - 1) :
          sampleBuffer[i][0] = Normalize(SensorRaw(i)[0], 0)

\* ------------------------------------------------------------------------
\* C22: slideWindow() on a full window leaves the samples of the rows 25..99
\* in the rows 0..74, in the same order, and the fill count at 75; the next
\* addSample stores its sample in row 75 and leaves the rows 0..74 alone.
C22_SlideKeepsNewest ==
    [][ /\ (WindowSlide /\ sampleIndex = WINDOW_SIZE)
              => /\ sampleIndex' = WINDOW_SIZE - WINDOW_STRIDE
                 /\ \A i \in 0..(WINDOW_SIZE - WINDOW_STRIDE - 1) :
                       sampleBuffer'[i] = sampleBuffer[i + WINDOW_STRIDE]
        /\ (WindowAppend /\ sampleIndex = WINDOW_SIZE - WINDOW_STRIDE)
              => /\ sampleIndex' = WINDOW_SIZE - WINDOW_STRIDE + 1
                 /\ sampleBuffer'[WINDOW_SIZE - WINDOW_STRIDE]
                        = [j \in 0..5 |-> Normalize(SensorRaw(sequence)[j], j)]
                 /\ \A i \in 0..(WINDOW_SIZE - WINDOW_STRIDE - 1) :
                       sampleBuffer'[i] = sampleBuffer[i] ]_vars

\* the window of the samples 0..99 slid, and the sample 100 appended: the
\* samples 25..99 in the rows 0..74, the sample 100 in row 75
C22_Witness ==
    /\ sequence = WINDOW_SIZE + 1
    /\ sampleIndex = 76
    /\ \A i \in 0..75 :
          sampleBuffer[i] = [j \in 0..5 |-> Normalize(SensorRaw(i + 25)[j], j)]

\* ------------------------------------------------------------------------
\* C23: the vector runInference hands to predict has WINDOW_SIZE * 6 entries
\* and is sample-major: entry i * 6 + j is channel j (ax, ay, az, gx, gy, gz)
\* of the i-th oldest sample of the window, the newest being the sample just
\* read.
C23_FlatInputSampleMajor ==
    [][predictCall' # predictCall =>
          LET in == predictCall'.input
              id(i) == in[i * 6][1] \div 10
          IN  /\ DOMAIN in = 0..(WINDOW_SIZE * 6 - 1)
              /\ \A i \in 0..(WINDOW_SIZE - 1) : \A j \in 0..5 :
                    in[i * 6 + j] = Normalize(SensorRaw(id(i))[j], j)
              /\ \A i \in 0..(WINDOW_SIZE - 2) : id(i) < id(i + 1)
              /\ id(WINDOW_SIZE - 1) = sequence ]_vars

\* the second inference of a loaded model: the samples of the slid window
\* followed by 25 new ones
C23_Witness ==
    /\ nn.modelLoaded
    /\ inferenceCount = 2
    /\ predictCall.prediction = 0
    /\ predictCall.input[0] = Normalize(SensorRaw(sequence - WINDOW_SIZE)[0], 0)
    /\ predictCall.input[WINDOW_SIZE * 6 - 1] = Normalize(SensorRaw(sequence - 1)[5], 5)

\* ------------------------------------------------------------------------
\* C24: for every numClasses in 1..8, predict on the all-zero input with a
\* loaded model whose weights and biases are all zero gives each class the
\* probability 1/numClasses and returns class 0 with confidence 1/numClasses.
C24_ZeroModelUniform ==
    [][( /\ nn.modelLoaded
         /\ WeightsOf(Deref(nn.model, stored)) = WeightProfiles[1]
         /\ predictCall'.input \in PredictInputs
         /\ \A k \in 0..(NN_INPUT_SIZE - 1) : predictCall'.input[k][1] = 0
         /\ PredictCall(predictCall'.input) )
              => /\ nn.numClasses \in 1..NN_MAX_CLASSES
                 /\ DOMAIN predictCall'.probabilities = 0..(nn.numClasses - 1)
                 /\ \A c \in 0..(nn.numClasses - 1) :
                       /\ predictCall'.probabilities[c][2] > 0
                       /\ predictCall'.probabilities[c][1] * nn.numClasses
                              = predictCall'.probabilities[c][2]
                 /\ predictCall'.prediction = 0
                 /\ lastConfidence'[1] * nn.numClasses = lastConfidence'[2]]_vars

\* the zero model of 7 classes asked about the zero input
C24_Witness ==
    /\ nn.modelLoaded /\ nn.numClasses = 7
    /\ WeightsOf(Deref(nn.model, stored)) = WeightProfiles[1]
    /\ predictCall.prediction = 0
    /\ \A k \in 0..(NN_INPUT_SIZE - 1) : predictCall.input[k][1] = 0
    /\ DOMAIN predictCall.probabilities = 0..6
    /\ lastConfidence[1] * 7 = lastConfidence[2]

\* ------------------------------------------------------------------------
\* C25: on a loaded model predict returns an index below numClasses, the
\* smallest one whose probability is the maximum of the probabilities, and
\* the confidence is the probability at that index.
C25_ArgmaxLowestIndex ==
    [][( /\ nn.modelLoaded
         /\ predictCall'.input \in PredictInputs
         /\ PredictCall(predictCall'.input) ) =>
              LET p == predictCall'.probabilities
                  c == predictCall'.prediction
              IN  /\ c \in 0..(nn.numClasses - 1)
                  /\ DOMAIN p = 0..(nn.numClasses - 1)
                  /\ \A k \in 0..(nn.numClasses - 1) : p[k][1] * p[c][2] <= p[c][1] * p[k][2]
                  /\ \A k \in 0..(c - 1) : p[k][1] * p[c][2] < p[c][1] * p[k][2]
                  /\ lastConfidence' = p[c] ]_vars

\* a prediction of class 2 whose probability the classes 4 and higher share
\* while the classes 0 and 1 have less
C25_Witness ==
    /\ nn.modelLoaded /\ nn.numClasses = 6
    /\ predictCall.prediction = 2
    /\ predictCall.probabilities[4] = predictCall.probabilities[2]
    /\ predictCall.probabilities[0][1] < predictCall.probabilities[2][1]
    /\ predictCall.probabilities[0][1] > 0
    /\ lastConfidence = predictCall.probabilities[2]

\* ------------------------------------------------------------------------
\* C26: getPredictionLabel returns "Unknown" for every integer index outside
\* [0, numClasses), negative ones and those of 256 and more included, and
\* whenever no model is loaded; it returns a label of the model only for an
\* index inside [0, numClasses).
C26_UnknownOutsideRange ==
    [][( /\ labelCall'.classIndex \in LabelIndices
         /\ LabelQuery(labelCall'.classIndex) )
           => /\ (~nn.modelLoaded \/ labelCall'.classIndex \notin 0..(nn.numClasses - 1))
                     => labelCall'.label = UNKNOWN_LABEL
              /\ labelCall'.label # UNKNOWN_LABEL
                     => (nn.modelLoaded /\ labelCall'.classIndex \in 0..(nn.numClasses - 1))]_vars

\* ------------------------------------------------------------------------
\* C27: clearStoredModel() on a system with an active model leaves
\* hasStoredModel() false and the engine Unloaded, and the next inference on
\* a full window gives the fallback result, class 0 with confidence 0.5,
\* without a call of predict on the wiped weights.
C27_ClearGivesFallback ==
    [][ /\ (ClearModel /\ hasStoredModel(stored))
              => /\ ~hasStoredModel(stored')
                 /\ ~nn'.modelLoaded
        /\ (~hasStoredModel(stored') /\ inferenceCount' = inferenceCount + 1)
              => /\ inferenceOut' = <<0, 50, 0, 0>>
                 /\ predictCall' = predictCall ]_vars

\* ------------------------------------------------------------------------
\* C28: an iteration of the loop whose sensor read fails leaves the window
\* and its fill count, totalSamples, inferenceCount and the packet sequence
\* number as they were and writes neither a sensor packet nor an inference
\* result.
C28_FailedReadIsNoSample ==
    [][( /\ sensorReads' = sensorReads + 1
         /\ \E mode \in ModeWrites :
               \/ LoopNoCommand(mode, TRUE, FALSE)
               \/ \E data \in LoopPayloads : LoopCommand(data, mode, TRUE, FALSE) )
           => /\ sampleBuffer' = sampleBuffer
              /\ sampleIndex' = sampleIndex
              /\ totalSamples' = totalSamples
              /\ inferenceCount' = inferenceCount
              /\ sequence' = sequence
              /\ sensorOut' = sensorOut
              /\ inferenceOut' = inferenceOut
              /\ predictCall' = predictCall]_vars

\* one sample in the window in inference mode, and a read that failed
C28_Witness ==
    /\ connected /\ currentMode = MODE_INFERENCE
    /\ sensorReads = 2 /\ totalSamples = 1
    /\ sampleIndex = 1 /\ sequence = 1
    /\ sampleBuffer[0][0] = Normalize(SensorRaw(0)[0], 0)
    /\ sensorOut = <<>>

\* ------------------------------------------------------------------------
\* CRC-8/MAXIM as it is defined: register 0x00 at the start, each byte
\* XORed into the register and the register then shifted right eight times,
\* 0x8C XORed in whenever a one is shifted out; no final XOR
RECURSIVE MaximShift(_, _)
MaximShift(reg, n) ==
    CHOOSE out \in {IF n = 0 THEN r
                    ELSE MaximShift(IF r % 2 = 1 THEN Xor8(r \div 2, 140) ELSE r \div 2, n - 1) :
                       r \in {reg}} : TRUE

RECURSIVE MaximFrom(_, _, _)
MaximFrom(reg, data, k) ==
    CHOOSE out \in {IF k > Len(data) THEN r
                    ELSE MaximFrom(MaximShift(Xor8(r, data[k]), 8), data, k + 1) :
                       r \in {reg}} : TRUE

\* C29: every packet a successful read produces has 17 bytes, its last byte
\* is the CRC-8/MAXIM of the first 16, crc8 over all 17 bytes is 0, crc8 of
\* the empty sequence is 0 (and crc8 of "123456789" is the check value 0xA1).
C29_PacketTrailer ==
    /\ crc8(<<>>) = 0
    /\ crc8(<<49, 50, 51, 52, 53, 54, 55, 56, 57>>) = 161
    /\ sensorOut # <<>>
          => /\ Len(sensorOut) = 17
             /\ \A i \in 1..17 : sensorOut[i] \in 0..255
             /\ sensorOut[17] = MaximFrom(0, SubSeq(sensorOut, 1, 16), 1)
             /\ sensorOut[17] = crc8(SubSeq(sensorOut, 1, 16))
             /\ crc8(sensorOut) = 0

\* a packet of negative readings with the last sequence number before the
\* wrap, stamped after the clock's low 16 bits wrapped
C29_Witness ==
    /\ Len(sensorOut) = 17
    /\ sensorOut[1] = 255 /\ sensorOut[2] = 255
    /\ sensorOut[13] = 255 /\ sensorOut[14] = 255
    /\ sensorOut[15] = 5 /\ sensorOut[16] = 0
    /\ sensorOut[17] # 0
    /\ sequence = 0

\* ------------------------------------------------------------------------
\* C30: a Start that is rejected (the status written is Error) leaves the
\* upload session as it was: expectedSize, numClasses, labels, receivedBytes,
\* buffer and state of the store's session and the expected CRC-32 that
\* Finish will compare against.
C30_RejectedStartKeepsSession ==
    [][\A data \in StartsMain \cup StartsEdge :
          ( /\ HandleStart(data)
            /\ statusLog'[Len(statusLog')][1] = UPLOAD_ERROR )
              => /\ upload' = upload
                 /\ uploadExpectedCrc' = uploadExpectedCrc]_vars

\* ------------------------------------------------------------------------
\* C31: after every upload command the state byte of the last status record
\* written while handling it is the store's upload state (getUploadState())
\* at the return of the handler.
C31_StatusStateIsStoreState ==
    statusLog # <<>> => LastStatus[1] = getUploadState(upload)

C33_StoreAndEngineAgree ==
    /\ hasStoredModel(stored) <=> nn.modelLoaded
    /\ (hasStoredModel(stored) /\ nn.modelLoaded) => nn.numClasses = stored.numClasses

\* ------------------------------------------------------------------------
\* the bytes of a Start after its 10-byte header, a list of terminated
\* strings: their number, and whether the list ends with a terminator
StartTail(data) == SubSeq(data, START_HEADER_LEN + 1, Len(data))

TerminatedLabels(data) ==
    Cardinality({k \in DOMAIN StartTail(data) : StartTail(data)[k] = 0})

TailTerminated(data) ==
    StartTail(data) = <<>> \/ StartTail(data)[Len(StartTail(data))] = 0

\* C34: a Start is accepted (the status written says Receiving) only if its
\* payload holds exactly as many null-terminated labels as its class-count
\* byte declares; with fewer labels it is rejected with FormatError.
C34_AcceptedStartHasAllLabels ==
    [][\A data \in StartsCount :
          HandleStart(data)
              => /\ statusLog'[Len(statusLog')][1] = UPLOAD_RECEIVING
                       => /\ TailTerminated(data)
                          /\ TerminatedLabels(data) = PayloadAt(data, 9)
                 /\ (TailTerminated(data) /\ TerminatedLabels(data) < PayloadAt(data, 9))
                       => statusLog'[Len(statusLog')]
                              = StatusRecord(UPLOAD_ERROR, 0, STATUS_ERROR_FORMAT)]_vars

\* ------------------------------------------------------------------------
\* C35: for every class-count byte of a Start the handler calls
\* setModelLabel only with a class index below NN_MAX_CLASSES, and the
\* class count recorded for the session a Start opens (uploadNumClasses, the
\* argument of beginModelUpload) is one of 1..NN_MAX_CLASSES.
C35_LabelIndexAndCountInRange ==
    [][\A data \in StartsCount :
          (HandleStart(data) /\ StartHeaderOk(Len(data)) /\ ~SizeTooBig(RdLE32(data, 1)))
              => /\ LabelLoop(data, Len(data), 0, START_HEADER_LEN,
                              beginModelUpload(U24(RdLE32(data, 1)), PayloadAt(data, 9)),
                              9).labelsSet <= NN_MAX_CLASSES
                 /\ uploadNumClasses' \in 1..NN_MAX_CLASSES]_vars

\* ------------------------------------------------------------------------
\* C36: counting the successful reads of inference mode, an inference runs on
\* the read that fills the window to WINDOW_SIZE and on no other; the slide
\* follows in the same iteration, so the fill count is WINDOW_SIZE -
\* WINDOW_STRIDE after an iteration that ran inference and one more than
\* before after every other such read (the first inference comes with the
\* WINDOW_SIZE-th read, every later one WINDOW_STRIDE reads after the last),
\* and nothing else moves the fill count.
C36_InferenceEveryStride ==
    [][ /\ (totalSamples' = totalSamples + 1 /\ currentMode' = MODE_INFERENCE)
              => IF sampleIndex = WINDOW_SIZE - 1
                 THEN /\ inferenceCount' = inferenceCount + 1
                      /\ Len(inferenceOut') = 4
                      /\ sampleIndex' = WINDOW_SIZE - WINDOW_STRIDE
                 ELSE /\ inferenceCount' = inferenceCount
                      /\ inferenceOut' = inferenceOut
                      /\ sampleIndex' = sampleIndex + 1
        /\ ~(totalSamples' = totalSamples + 1 /\ currentMode' = MODE_INFERENCE)
              => /\ sampleIndex' = sampleIndex
                 /\ inferenceCount' = inferenceCount
        /\ sampleIndex' < WINDOW_SIZE ]_vars

\* the second inference has run, WINDOW_SIZE + WINDOW_STRIDE samples after the
\* first sample entered the window
C36_Witness ==
    /\ currentMode = MODE_INFERENCE
    /\ inferenceCount = 2
    /\ sampleIndex = WINDOW_SIZE - WINDOW_STRIDE
    /\ totalSamples >= WINDOW_SIZE + WINDOW_STRIDE

\* ------------------------------------------------------------------------
\* C37: every input vector handed to predict is made of the WINDOW_SIZE most
\* recent successfully read samples in arrival order, none skipped: sample i
\* of the vector is the read with sequence number (newest - WINDOW_SIZE + 1
\* + i), the newest being the sample just read.
C37_WindowIsConsecutive ==
    [][predictCall' # predictCall =>
          \A i \in 0..(WINDOW_SIZE - 1) : \A j \in 0..5 :
              predictCall'.input[i * 6 + j]
                  = Normalize(SensorRaw(sequence - (WINDOW_SIZE - 1) + i)[j], j) ]_vars

\* ------------------------------------------------------------------------
\* C38: once a Finish or a Cancel has been handled, sampling resumes: unless
\* the central disconnects or writes a new Start, a later iteration of the
\* loop reads the sensor.
C38_SamplingResumes ==
    \A n \in 0..(MaxEventReads + 1) :
        (connected /\ cmd \in {CMD_FINISH, CMD_CANCEL} /\ sensorReads = n)
            ~> (sensorReads > n \/ ~connected \/ cmd = CMD_START)

====
